---- MODULE Spec2Model ----
(***************************************************************************)
(* Model of the polymorphic instantiation / fallback protocol, the card    *)
(* object tree and the validation pass of                                   *)
(* source/nodejs/adaptivecards/src/card-elements.ts.                        *)
(*                                                                         *)
(* Objects live in a heap (a sequence of records); an object's identity is *)
(* its index in the heap and 0 stands for `undefined`.  Operations thread  *)
(* a machine record M = [heap, errors, thrown] through the calls they make *)
(* in the order the code makes them.                                        *)
(***************************************************************************)
EXTENDS Integers, Sequences, FiniteSets, TLC

VARIABLES
    heap,                 \* every card object that exists, by identity
    errors,               \* the error sink handed to parse (IValidationError[])
    thrown,               \* TRUE when the last call ended with an exception
    result,               \* the value the last call returned (0 = undefined)
    call,                 \* the last call and its arguments
    pc,                   \* "idle" before a call, "done" once it has returned
    report,               \* the ValidationResults of the last validateProperties()
    elementTypeRegistry,  \* AdaptiveCard.elementTypeRegistry._items
    actionTypeRegistry    \* AdaptiveCard.actionTypeRegistry._items

vars == <<heap, errors, thrown, result, call, pc, report,
          elementTypeRegistry, actionTypeRegistry>>

registries == <<elementTypeRegistry, actionTypeRegistry>>

-----------------------------------------------------------------------------
(* Bounds *)

\* deepest nesting of "fallback" objects in a fragment given to the
\* create...Instance functions
MaxChain == 2

\* longest "items" array of a Container fragment
MaxItems == 1

-----------------------------------------------------------------------------
(* Strings that the code inspects character by character *)

StrEmpty == << >>
StrDrop == <<"d", "r", "o", "p">>
StrDropCapital == <<"D", "r", "o", "p">>
StrDropUpper == <<"D", "R", "O", "P">>
StrNone == <<"n", "o", "n", "e">>

toLowerCaseChar(c) ==
    CASE c = "D" -> "d"
      [] c = "R" -> "r"
      [] c = "O" -> "o"
      [] c = "P" -> "p"
      [] c = "N" -> "n"
      [] c = "E" -> "e"
      [] OTHER -> c

toLowerCase(s) == [i \in 1..Len(s) |-> toLowerCaseChar(s[i])]

-----------------------------------------------------------------------------
(* JSON values.  Every value is a record of the same shape; the fields     *)
(* other than kind are meaningful for kind = "object" (str for "string").  *)
(* A key that may be absent is a sequence of length 0 (absent) or 1.        *)

JValue(kind, str, type, id, requires, fallback, items) ==
    [kind |-> kind, str |-> str, type |-> type, id |-> id,
     requires |-> requires, fallback |-> fallback, items |-> items]

JUndefined == JValue("undefined", StrEmpty, "", "", {}, << >>, << >>)
JNull == JValue("null", StrEmpty, "", "", {}, << >>, << >>)
JString(s) == JValue("string", s, "", "", {}, << >>, << >>)
JObject(type, id, requires, fallback, items) ==
    JValue("object", StrEmpty, type, id, requires, fallback, items)

\* json[key] for a key held as a 0/1 sequence
JGet(key) == IF Len(key) = 0 THEN JUndefined ELSE key[1]

\* JavaScript truthiness: undefined, null and "" are falsy
IsFalsy(v) ==
    \/ v.kind = "undefined"
    \/ v.kind = "null"
    \/ (v.kind = "string" /\ v.str = StrEmpty)

\* JavaScript typeof: typeof null is "object"
typeof(v) ==
    CASE v.kind = "undefined" -> "undefined"
      [] v.kind = "string" -> "string"
      [] OTHER -> "object"

\* Utils.getStringValue / Utils.isNullOrEmpty on json["type"]: a missing or
\* non-string type is held as ""
isNullOrEmpty(s) == s = ""

-----------------------------------------------------------------------------
(* Host configuration *)

DefaultMaxActions == 5

HostConfig(caps, interactive) ==
    [hostCapabilities |-> caps, supportsInteractivity |-> interactive,
     maxActions |-> DefaultMaxActions,
     showCardActionMode |-> "Inline", preExpandSingleShowCardAction |-> FALSE]

\* the module-level defaultHostConfig: interactivity on, no capabilities listed
defaultHostConfig == HostConfig({}, TRUE)

\* a host that declares CapX 1.0
capXHostConfig == HostConfig({<<"CapX", 1>>}, TRUE)

\* HostCapabilities.areAllMet: every required capability is offered by the
\* host at the required version or later
areAllMet(requires, hostCapabilities) ==
    \A r \in requires :
        \E h \in hostCapabilities : h[1] = r[1] /\ r[2] <= h[2]

-----------------------------------------------------------------------------
(* Versions *)

LatestMajor == 1
LatestMinor == 2

Version(major, minor) ==
    [isSet |-> TRUE, isValid |-> TRUE, major |-> major, minor |-> minor]
NoVersion == [isSet |-> FALSE, isValid |-> FALSE, major |-> 0, minor |-> 0]
InvalidVersion == [isSet |-> TRUE, isValid |-> FALSE, major |-> 0, minor |-> 0]

-----------------------------------------------------------------------------
(* Card objects *)

NoObject == 0

CardObject(class) ==
    [class |-> class,
     parent |-> NoObject,
     shouldFallbackFlag |-> FALSE,
     id |-> "",
     requires |-> {},
     hostConfigOverride |-> << >>,
     items |-> << >>,
     inlines |-> << >>,
     actions |-> << >>,
     actionCollection |-> NoObject,
     buttons |-> << >>,
     expandedAction |-> NoObject,
     onclick |-> NoObject,
     selectAction |-> NoObject,
     forbiddenElementTypes |-> << >>,
     forbiddenActionTypes |-> IF class = "InlineAdaptiveCard" THEN <<"[class ShowCardAction]">> ELSE << >>,
     typeNameValue |-> IF class = "InlineAdaptiveCard" THEN "AdaptiveCard" ELSE class,
     card |-> NoObject,
     fallbackCard |-> NoObject,
     version |-> IF class = "AdaptiveCard" THEN Version(1, 0) ELSE NoVersion,
     designMode |-> FALSE]

InputClasses == {"TextInput", "DateInput", "TimeInput", "NumberInput", "ChoiceSetInput", "ToggleInput"}
ActionClasses == {"SubmitAction", "OpenUrlAction", "ShowCardAction", "ToggleVisibilityAction"}
CardClasses == {"AdaptiveCard", "InlineAdaptiveCard"}
ContainerClasses == {"Container", "AdaptiveCard", "InlineAdaptiveCard"}

\* the subclasses of CardElementContainer that add no validation of their own
\* to the loop over getItemAt: items, columns and images are held in items
ElementContainerClasses == {"Container", "Column", "ColumnSet", "ImageSet"}

getJsonTypeName(o) ==
    CASE o.class = "SubmitAction" -> "Action.Submit"
      [] o.class = "OpenUrlAction" -> "Action.OpenUrl"
      [] o.class = "ShowCardAction" -> "Action.ShowCard"
      [] o.class = "ToggleVisibilityAction" -> "Action.ToggleVisibility"
      [] o.class = "InlineAdaptiveCard" -> "AdaptiveCard"
      [] OTHER -> o.class

isStandalone(o) == o.class \notin {"TextRun", "Column", "AdaptiveCard", "InlineAdaptiveCard"}

isInteractive(o) == o.class \in InputClasses \cup {"ActionSet"}

RECURSIVE hostConfig(_, _)
hostConfig(h, o) ==
    IF h[o].class \in ActionClasses
    THEN IF h[o].parent # NoObject THEN hostConfig(h, h[o].parent) ELSE defaultHostConfig
    ELSE IF Len(h[o].hostConfigOverride) > 0 THEN h[o].hostConfigOverride[1]
         ELSE IF h[o].parent # NoObject THEN hostConfig(h, h[o].parent)
         ELSE defaultHostConfig

RECURSIVE getRootElement(_, _)
getRootElement(h, o) ==
    IF h[o].parent # NoObject THEN getRootElement(h, h[o].parent) ELSE o

isDesignMode(h, o) ==
    LET rootElement == getRootElement(h, o)
    IN  h[rootElement].class \in CardClasses /\ h[rootElement].designMode

bypassVersionCheck(o) == o.class = "InlineAdaptiveCard"

\* the minor number left out of the comparison
isVersionSupported_majorOnly(o) ==
    IF bypassVersionCheck(o) THEN TRUE
    ELSE o.version.isSet /\ o.version.isValid /\ o.version.major <= LatestMajor

isVersionSupported(o) ==
    IF bypassVersionCheck(o) THEN TRUE
    ELSE LET unsupportedVersion ==
                 \/ ~o.version.isSet
                 \/ ~o.version.isValid
                 \/ LatestMajor < o.version.major
                 \/ (LatestMajor = o.version.major /\ LatestMinor < o.version.minor)
         IN  ~unsupportedVersion

\* return this._shouldFallback: the requires test left out
CardObject_shouldFallback_flagOnly(h, o) == h[o].shouldFallbackFlag

CardObject_shouldFallback(h, o) ==
    h[o].shouldFallbackFlag \/ ~areAllMet(h[o].requires, hostConfig(h, o).hostCapabilities)

\* AdaptiveCard without its override of shouldFallback
shouldFallback_noVersionGate(h, o) == CardObject_shouldFallback(h, o)

shouldFallback(h, o) ==
    IF h[o].class \in CardClasses
    THEN CardObject_shouldFallback(h, o) \/ ~isVersionSupported(h[o])
    ELSE CardObject_shouldFallback(h, o)

-----------------------------------------------------------------------------
(* The machine record and its primitive updates *)

\* a local of the code is computed once and then used by the statements
\* after it: {e : x \in {v}} is the set that holds e for x the value of v,
\* and TheOne takes e out of it
TheOne(values) == CHOOSE value \in values : TRUE

Machine(h, e, t) == [heap |-> h, errors |-> e, thrown |-> t]

Returned(M, r) == [M |-> M, result |-> r]

setParent(M, o, value) ==
    LET withParent == [M.heap EXCEPT ![o].parent = value]
    IN  IF M.heap[o].class = "ShowCardAction"
        THEN [M EXCEPT !.heap = [withParent EXCEPT ![M.heap[o].card].parent = value]]
        ELSE [M EXCEPT !.heap = withParent]

\* the flag is never written
setShouldFallback_ignored(M, o, value) == M

setShouldFallback(M, o, value) ==
    [M EXCEPT !.heap[o].shouldFallbackFlag = value]

ValidationError(error, typeName) == [error |-> error, typeName |-> typeName]

raiseParseError(M, error) == [M EXCEPT !.errors = Append(M.errors, error)]

\* new X(): the object is appended to the heap; a ShowCardAction owns an
\* InlineAdaptiveCard created with it
New(M, class) ==
    IF class = "ShowCardAction"
    THEN LET action == Len(M.heap) + 1
             card == Len(M.heap) + 2
         IN  Returned([M EXCEPT !.heap = M.heap \o
                          <<[CardObject("ShowCardAction") EXCEPT !.card = card],
                            CardObject("InlineAdaptiveCard")>>],
                      action)
    ELSE Returned([M EXCEPT !.heap = Append(M.heap, CardObject(class))], Len(M.heap) + 1)

-----------------------------------------------------------------------------
(* Type registries *)

Registration(typeName, class) == [typeName |-> typeName, createInstance |-> class]

ElementTypeRegistry_reset ==
    << Registration("Container", "Container"),
       Registration("TextBlock", "TextBlock"),
       Registration("RichTextBlock", "RichTextBlock"),
       Registration("TextRun", "TextRun"),
       Registration("Image", "Image"),
       Registration("ImageSet", "ImageSet"),
       Registration("Media", "Media"),
       Registration("FactSet", "FactSet"),
       Registration("ColumnSet", "ColumnSet"),
       Registration("ActionSet", "ActionSet"),
       Registration("Input.Text", "TextInput"),
       Registration("Input.Date", "DateInput"),
       Registration("Input.Time", "TimeInput"),
       Registration("Input.Number", "NumberInput"),
       Registration("Input.ChoiceSet", "ChoiceSetInput"),
       Registration("Input.Toggle", "ToggleInput") >>

ActionTypeRegistry_reset ==
    << Registration("Action.OpenUrl", "OpenUrlAction"),
       Registration("Action.Submit", "SubmitAction"),
       Registration("Action.ShowCard", "ShowCardAction"),
       Registration("Action.ToggleVisibility", "ToggleVisibilityAction") >>

\* the first registration with exactly this name, as a 0/1 sequence
findTypeRegistration(items, typeName) ==
    LET hits == {i \in 1..Len(items) : items[i].typeName = typeName}
    IN  IF hits = {} THEN << >>
        ELSE <<items[CHOOSE i \in hits : \A j \in hits : i <= j]>>

TypeRegistry_createInstance(M, items, typeName) ==
    LET registrationInfo == findTypeRegistration(items, typeName)
    IN  IF Len(registrationInfo) > 0
        THEN New(M, registrationInfo[1].createInstance)
        ELSE Returned(M, NoObject)

-----------------------------------------------------------------------------
(* createCardObjectInstance and the parse methods it calls *)

\* the callbacks each wrapper supplies: createElementInstance and
\* createActionInstance ask a registry, ColumnSet.createColumnInstance makes a
\* Column for the type name "Column" only
createInstanceCallback(M, kind, typeName) ==
    IF kind = "action"
    THEN TypeRegistry_createInstance(M, actionTypeRegistry, typeName)
    ELSE IF kind = "column"
    THEN IF typeName = "Column" THEN New(M, "Column") ELSE Returned(M, NoObject)
    ELSE TypeRegistry_createInstance(M, elementTypeRegistry, typeName)

\* the error kinds of the two branches exchanged
createValidationErrorCallback_kindsSwapped(kind, typeName, errorType) ==
    IF kind = "action"
    THEN IF errorType = "UnknownType"
         THEN ValidationError("ActionTypeNotAllowed", typeName)
         ELSE ValidationError("UnknownActionType", typeName)
    ELSE IF errorType = "UnknownType"
         THEN ValidationError("ElementTypeNotAllowed", typeName)
         ELSE ValidationError("UnknownElementType", typeName)

createValidationErrorCallback(kind, typeName, errorType) ==
    IF kind = "action"
    THEN IF errorType = "UnknownType"
         THEN ValidationError("UnknownActionType", typeName)
         ELSE ValidationError("ActionTypeNotAllowed", typeName)
    ELSE IF errorType = "UnknownType"
         THEN ValidationError("UnknownElementType", typeName)
         ELSE ValidationError("ElementTypeNotAllowed", typeName)

\* forbiddenTypeNames.indexOf(typeName) > 0: the first entry is missed
IsForbiddenTypeName_skipsFirst(forbiddenTypeNames, typeName) ==
    \E i \in 2..Len(forbiddenTypeNames) : forbiddenTypeNames[i] = typeName

\* forbiddenTypeNames.indexOf(typeName) >= 0
IsForbiddenTypeName(forbiddenTypeNames, typeName) ==
    \E i \in 1..Len(forbiddenTypeNames) : forbiddenTypeNames[i] = typeName

\* typeof fallback !== "object" && parent: a string fallback flags the parent too
PropagatesToParent_anyNonObject(fallback, parent) ==
    typeof(fallback) # "object" /\ parent # NoObject

\* fallback && parent: the test on the fallback key inverted
PropagatesToParent_inverted(fallback, parent) ==
    ~IsFalsy(fallback) /\ parent # NoObject

\* !fallback && parent
PropagatesToParent(fallback, parent) == IsFalsy(fallback) /\ parent # NoObject

\* typeof fallback === "string" && fallback.toLowerCase() === "drop"
IsDrop(fallback) == typeof(fallback) = "string" /\ toLowerCase(fallback.str) = StrDrop

\* typeof fallback === "Object": never true
IsFallbackObject_never(fallback) == typeof(fallback) = "Object"

\* a depth guard: a fallback that carries a fallback object of its own is not
\* followed
IsFallbackObject_oneLevel(fallback) ==
    /\ typeof(fallback) = "object"
    /\ ~(fallback.kind = "object" /\ fallback.fallback # << >>
                                  /\ fallback.fallback[1].kind = "object")

\* typeof fallback === "object"
IsFallbackObject(fallback) == typeof(fallback) = "object"

\* SerializableObject.parse for the CardObject schema: id and requires
SerializableObject_parse(M, o, json) ==
    [M EXCEPT !.heap[o].id = json.id, !.heap[o].requires = json.requires]

\* the test of item.parent left out
insertItemAt_parentIgnored(M, c, item, index, forceInsert) ==
    IF isStandalone(M.heap[item])
    THEN LET its == M.heap[c].items
             placed == IF index < 0 \/ index >= Len(its)
                       THEN Append(its, item)
                       ELSE SubSeq(its, 1, index) \o <<item>> \o SubSeq(its, index + 1, Len(its))
         IN  [M EXCEPT !.heap[c].items = placed, !.heap[item].parent = c]
    ELSE [M EXCEPT !.thrown = TRUE]

\* the test of item.isStandalone left out
insertItemAt_standaloneIgnored(M, c, item, index, forceInsert) ==
    IF M.heap[item].parent = NoObject \/ forceInsert
    THEN LET its == M.heap[c].items
             placed == IF index < 0 \/ index >= Len(its)
                       THEN Append(its, item)
                       ELSE SubSeq(its, 1, index) \o <<item>> \o SubSeq(its, index + 1, Len(its))
         IN  [M EXCEPT !.heap[c].items = placed, !.heap[item].parent = c]
    ELSE [M EXCEPT !.thrown = TRUE]

\* Container.insertItemAt(item, index, forceInsert)
insertItemAt(M, c, item, index, forceInsert) ==
    IF M.heap[item].parent = NoObject \/ forceInsert
    THEN IF isStandalone(M.heap[item])
         THEN LET its == M.heap[c].items
                  placed == IF index < 0 \/ index >= Len(its)
                            THEN Append(its, item)
                            ELSE SubSeq(its, 1, index) \o <<item>> \o SubSeq(its, index + 1, Len(its))
              IN  [M EXCEPT !.heap[c].items = placed, !.heap[item].parent = c]
         ELSE [M EXCEPT !.thrown = TRUE]
    ELSE [M EXCEPT !.thrown = TRUE]

\* position of x in a sequence, 0 when it is not there (indexOf + 1)
indexOf(seq, x) ==
    LET hits == {i \in 1..Len(seq) : seq[i] = x}
    IN  IF hits = {} THEN 0 ELSE CHOOSE i \in hits : \A j \in hits : i <= j

\* ActionCollection.addAction
ActionCollection_addAction(M, owner, action) ==
    IF action = NoObject THEN [M EXCEPT !.thrown = TRUE]
    ELSE IF /\ M.heap[action].parent \in {NoObject, owner}
            /\ indexOf(M.heap[owner].actions, action) = 0
    THEN LET pushed == [M EXCEPT !.heap[owner].actions = Append(@, action)]
             owned == IF M.heap[action].parent = NoObject THEN setParent(pushed, action, owner)
                      ELSE pushed
         IN  [owned EXCEPT !.heap[action].actionCollection = owner]
    ELSE [M EXCEPT !.thrown = TRUE]

\* ActionCollection.clear()
ActionCollection_clear(M, owner) ==
    [M EXCEPT !.heap[owner].actions = << >>,
              !.heap[owner].buttons = << >>,
              !.heap[owner].expandedAction = NoObject]

RECURSIVE createCardObjectInstance(_, _, _, _, _, _)
RECURSIVE ColumnSet_parseColumns(_, _, _, _)
RECURSIVE ActionCollection_parseActions(_, _, _, _)
RECURSIVE parse(_, _, _)
RECURSIVE Container_parseItems(_, _, _, _)

createCardObjectInstance(M, parent, json, forbiddenTypeNames, allowFallback, kind) ==
    IF json.kind # "object" THEN Returned(M, NoObject)
    ELSE IF isNullOrEmpty(json.type) THEN Returned(M, NoObject)
    ELSE IF IsForbiddenTypeName(forbiddenTypeNames, json.type)
    THEN Returned(raiseParseError(M,
                      createValidationErrorCallback(kind, json.type, "ForbiddenType")),
                  NoObject)
    ELSE TheOne(UNION {{
        LET instance == created.result
            tryToFallback ==
                IF instance = NoObject THEN allowFallback
                ELSE shouldFallback(parsed.heap, instance) /\ allowFallback
            fallback == JGet(json.fallback)
            flagged ==
                IF PropagatesToParent(fallback, parent)
                THEN setShouldFallback(parsed, parent, TRUE)
                ELSE parsed
        IN  IF parsed.thrown THEN Returned(parsed, NoObject)
            ELSE IF ~tryToFallback THEN Returned(parsed, instance)
            ELSE IF IsDrop(fallback) THEN Returned(flagged, NoObject)
            ELSE IF IsFallbackObject(fallback)
            THEN createCardObjectInstance(flagged, parent, fallback,
                                          forbiddenTypeNames, TRUE, kind)
            ELSE Returned(flagged, instance)
        : parsed \in {IF created.result = NoObject
                      THEN raiseParseError(created.M,
                               createValidationErrorCallback(kind, json.type, "UnknownType"))
                      ELSE parse(setParent(created.M, created.result, parent),
                                 created.result, json)}}
        : created \in {createInstanceCallback(M, kind, json.type)}})

\* fallback attempted whatever the caller allows
createElementInstance_fallbackAlways(M, parent, json, allowFallback) ==
    createCardObjectInstance(M, parent, json, << >>, TRUE, "element")

createElementInstance(M, parent, json, allowFallback) ==
    createCardObjectInstance(M, parent, json, << >>, allowFallback, "element")

createActionInstance(M, parent, json, forbiddenActionTypes, allowFallback) ==
    createCardObjectInstance(M, parent, json, forbiddenActionTypes, allowFallback, "action")

\* the loop of Container.parse over json.items, from position i
Container_parseItems(M, c, jsonItems, i) ==
    IF i > Len(jsonItems) \/ M.thrown THEN M
    ELSE TheOne(UNION {{
             Container_parseItems(added, c, jsonItems, i + 1)
             : added \in {IF made.result # NoObject /\ ~made.M.thrown
                          THEN insertItemAt(made.M, c, made.result, -1, TRUE)
                          ELSE made.M}}
             : made \in {createElementInstance(M, c, jsonItems[i], ~isDesignMode(M.heap, c))}})

\* Container.clear()
Container_clear(M, c) == [M EXCEPT !.heap[c].items = << >>]

Container_parse(M, c, json) ==
    LET base == SerializableObject_parse(M, c, json)
        cleared == setShouldFallback(Container_clear(base, c), c, FALSE)
    IN  Container_parseItems(cleared, c, json.items, 1)

\* ColumnSet.createColumnInstance
createColumnInstance(M, cs, json) ==
    createCardObjectInstance(M, cs, json, << >>, ~isDesignMode(M.heap, cs), "column")

\* the loop of ColumnSet.parse over json.columns, from position i
ColumnSet_parseColumns(M, cs, jsonColumns, i) ==
    IF i > Len(jsonColumns) \/ M.thrown THEN M
    ELSE TheOne(UNION {{
             ColumnSet_parseColumns(pushed, cs, jsonColumns, i + 1)
             : pushed \in {IF made.result # NoObject /\ ~made.M.thrown
                           THEN [made.M EXCEPT !.heap[cs].items = Append(@, made.result)]
                           ELSE made.M}}
             : made \in {createColumnInstance(M, cs, jsonColumns[i])}})

\* ColumnSet.parse: the "columns" of the fragment are held in items
ColumnSet_parse(M, cs, json) ==
    LET base == SerializableObject_parse(M, cs, json)
    IN  ColumnSet_parseColumns([base EXCEPT !.heap[cs].items = << >>], cs, json.items, 1)

\* the loop of ActionCollection.parse over the array, from position i
ActionCollection_parseActions(M, owner, jsonActions, i) ==
    IF i > Len(jsonActions) \/ M.thrown THEN M
    ELSE TheOne(UNION {{
             ActionCollection_parseActions(added, owner, jsonActions, i + 1)
             : added \in {IF made.result # NoObject /\ ~made.M.thrown
                          THEN ActionCollection_addAction(made.M, owner, made.result)
                          ELSE made.M}}
             : made \in {createActionInstance(M, owner, jsonActions[i], << >>,
                                              ~isDesignMode(M.heap, owner))}})

\* ActionCollection.parse(json["actions"]): clear(), then the loop when the
\* value is an array (an absent key is held as the empty sequence)
ActionCollection_parse(M, owner, jsonActions) ==
    ActionCollection_parseActions(ActionCollection_clear(M, owner), owner, jsonActions, 1)

\* ActionSet.parse: the "actions" of the fragment are held in items
ActionSet_parse(M, as, json) ==
    ActionCollection_parse(SerializableObject_parse(M, as, json), as, json.items)

\* ContainerWithActions.parse, for a fragment without an "actions" key
ContainerWithActions_parse(M, c, json) ==
    TheOne({IF contained.thrown THEN contained
            ELSE ActionCollection_parse(contained, c, << >>)
            : contained \in {Container_parse(M, c, json)}})

\* AdaptiveCard.parse: the "fallback" key of the card makes the fallback card,
\* then ContainerWithActions.parse reads the body
AdaptiveCard_parse(M, c, json) ==
    LET unset == [M EXCEPT !.heap[c].fallbackCard = NoObject]
    IN  TheOne(UNION {{
            IF kept.thrown THEN kept ELSE ContainerWithActions_parse(kept, c, json)
            : kept \in {IF fallbackElement.M.thrown \/ fallbackElement.result = NoObject
                        THEN fallbackElement.M
                        ELSE LET card == New(fallbackElement.M, "AdaptiveCard")
                             IN  insertItemAt(
                                     [card.M EXCEPT !.heap[c].fallbackCard = card.result],
                                     card.result, fallbackElement.result, -1, FALSE)}}
            : fallbackElement \in {createElementInstance(unset, NoObject, JGet(json.fallback),
                                                         ~isDesignMode(unset.heap, c))}})

\* ShowCardAction.parse for a fragment without a "card" key
ShowCardAction_parse(M, a, json) ==
    raiseParseError(SerializableObject_parse(M, a, json),
                    ValidationError("PropertyCantBeNull", ""))

parse(M, o, json) ==
    IF M.heap[o].class \in CardClasses THEN AdaptiveCard_parse(M, o, json)
    ELSE IF M.heap[o].class \in {"Container", "Column"} THEN Container_parse(M, o, json)
    ELSE IF M.heap[o].class = "ColumnSet" THEN ColumnSet_parse(M, o, json)
    ELSE IF M.heap[o].class = "ActionSet" THEN ActionSet_parse(M, o, json)
    ELSE IF M.heap[o].class = "ShowCardAction" THEN ShowCardAction_parse(M, o, json)
    ELSE SerializableObject_parse(M, o, json)

-----------------------------------------------------------------------------
(* Inputs *)

FallbackStrings == {StrEmpty, StrDrop, StrDropCapital, StrDropUpper, StrNone}

\* every value of the "fallback" key that is not a nested fragment
FallbackScalars ==
    {<< >>, <<JNull>>} \cup {<<JString(s)>> : s \in FallbackStrings}

RequiresChoices == {{}, {<<"CapX", 1>>}}

RECURSIVE Fragments(_, _)
Fragments(types, depth) ==
    LET fallbacks ==
            FallbackScalars \cup
            (IF depth = 0 THEN {} ELSE {<<f>> : f \in Fragments(types, depth - 1)})
    IN  {JObject(t, "", r, fb, << >>) : t \in types, r \in RequiresChoices, fb \in fallbacks}

ElementTypeNames == {"TextBlock", "Foo", ""}
ActionTypeNames == {"Action.Submit", "Action.ShowCard", "Action.Foo"}

ElementFragments == Fragments(ElementTypeNames, MaxChain)
ActionFragments == Fragments(ActionTypeNames, MaxChain)

ForbiddenActionTypeLists == {<< >>, <<"Action.ShowCard">>, <<"Action.Foo">>}

NoCall ==
    [op |-> "none", parent |-> NoObject, json |-> JUndefined,
     forbiddenTypeNames |-> << >>, allowFallback |-> FALSE]

Call(op, parent, json, forbiddenTypeNames, allowFallback) ==
    [op |-> op, parent |-> parent, json |-> json,
     forbiddenTypeNames |-> forbiddenTypeNames, allowFallback |-> allowFallback]

NoReport == [failures |-> << >>, allIds |-> << >>, thrown |-> FALSE]

-----------------------------------------------------------------------------
(* Specification of the instantiation protocol: a host owns one Container  *)
(* (heap[1]) and calls createElementInstance / createActionInstance with    *)
(* it, or with no parent.                                                   *)

HostContainer == 1

Init ==
    /\ \E hc \in {<< >>, <<capXHostConfig>>}, flag \in BOOLEAN :
          heap = <<[CardObject("Container") EXCEPT !.hostConfigOverride = hc,
                                                  !.shouldFallbackFlag = flag]>>
    /\ errors = << >>
    /\ thrown = FALSE
    /\ result = NoObject
    /\ call = NoCall
    /\ pc = "idle"
    /\ report = NoReport
    /\ elementTypeRegistry = ElementTypeRegistry_reset
    /\ actionTypeRegistry = ActionTypeRegistry_reset

Returns(r, c) ==
    /\ heap' = r.M.heap
    /\ errors' = r.M.errors
    /\ thrown' = r.M.thrown
    /\ result' = r.result
    /\ call' = c
    /\ pc' = "done"
    /\ UNCHANGED <<report, registries>>

CreateElementInstance ==
    /\ pc = "idle"
    /\ \E parent \in {NoObject, HostContainer}, json \in ElementFragments,
          allowFallback \in BOOLEAN :
          Returns(createElementInstance(Machine(heap, errors, FALSE), parent, json, allowFallback),
                  Call("createElementInstance", parent, json, << >>, allowFallback))

CreateActionInstance ==
    /\ pc = "idle"
    /\ \E parent \in {NoObject, HostContainer}, json \in ActionFragments,
          forbiddenActionTypes \in ForbiddenActionTypeLists, allowFallback \in BOOLEAN :
          Returns(createActionInstance(Machine(heap, errors, FALSE), parent, json,
                                       forbiddenActionTypes, allowFallback),
                  Call("createActionInstance", parent, json, forbiddenActionTypes, allowFallback))

\* the host empties its container (Container.clear()) and lets go of the
\* objects the last call made and of the error list; the container stays
Release ==
    /\ pc = "done"
    /\ heap' = SubSeq(Container_clear(Machine(heap, errors, FALSE), HostContainer).heap, 1, 1)
    /\ errors' = << >>
    /\ thrown' = FALSE
    /\ result' = NoObject
    /\ call' = NoCall
    /\ pc' = "idle"
    /\ UNCHANGED <<report, registries>>

Next == CreateElementInstance \/ CreateActionInstance \/ Release

Spec == Init /\ [][Next]_vars

-----------------------------------------------------------------------------
(* Vocabulary of the properties below.  These definitions read the call     *)
(* record and the registries only; they do not use the operators of the     *)
(* instantiation procedure.                                                 *)

RegistryOf(c) ==
    IF c.op = "createActionInstance" THEN actionTypeRegistry ELSE elementTypeRegistry

TypeNamed(j) == j.kind = "object" /\ j.type # ""

TypeListed(j, names) == \E i \in DOMAIN names : names[i] = j.type

TypeRegistered(j, registry) == \E i \in DOMAIN registry : registry[i].typeName = j.type

\* the fragment reaches the registry lookup and no registration is found
TypeUnknown(c, j) ==
    /\ TypeNamed(j)
    /\ ~TypeListed(j, c.forbiddenTypeNames)
    /\ ~TypeRegistered(j, RegistryOf(c))

\* the fragment reaches the registry lookup and an instance is created
TypeKnown(c, j) ==
    /\ TypeNamed(j)
    /\ ~TypeListed(j, c.forbiddenTypeNames)
    /\ TypeRegistered(j, RegistryOf(c))

\* the host capabilities an object created under this parent answers to
HostCapabilitiesUnder(h, parent) ==
    IF parent = NoObject THEN defaultHostConfig.hostCapabilities
    ELSE hostConfig(h, parent).hostCapabilities

\* some required capability is not offered by the host at all, or only in an
\* older version
RequiresUnmet(requires, hostCapabilities) ==
    \E r \in requires :
        \A h \in hostCapabilities : h[1] # r[1] \/ h[2] < r[2]

\* this.requires.areAllMet(hostCapabilities) answers no
NotAllMet(requires, hostCapabilities) == ~areAllMet(requires, hostCapabilities)

FallbackKeyAbsent(j) == j.fallback = << >>

FallbackIsDropString(j) ==
    /\ j.fallback # << >>
    /\ j.fallback[1] \in {JString(StrDrop), JString(StrDropCapital), JString(StrDropUpper)}

FallbackIsFragment(j) == j.fallback # << >> /\ j.fallback[1].kind = "object"

UnknownTypeError(c, j) ==
    ValidationError(IF c.op = "createActionInstance" THEN "UnknownActionType"
                    ELSE "UnknownElementType", j.type)

ForbiddenTypeError(c, j) ==
    ValidationError(IF c.op = "createActionInstance" THEN "ActionTypeNotAllowed"
                    ELSE "ElementTypeNotAllowed", j.type)

InstantiationReturned ==
    pc = "done" /\ call.op \in {"createElementInstance", "createActionInstance"}

\* the first object the call created
FirstCreated == HostContainer + 1

-----------------------------------------------------------------------------
(* C1: when the fragment's type name is in forbiddenTypeNames the call      *)
(* returns nothing, records exactly one forbidden-type error, creates no    *)
(* object and leaves every existing object (the parent's should-fallback    *)
(* flag included) as it was, whatever the fallback key and allowFallback.   *)

C1_ForbiddenTypeYieldsOnlyAnError ==
    [][ ( /\ pc = "idle" /\ pc' = "done"
          /\ TypeNamed(call'.json)
          /\ TypeListed(call'.json, call'.forbiddenTypeNames) )
        => ( /\ result' = NoObject
             /\ ~thrown'
             /\ errors' = Append(errors, ForbiddenTypeError(call', call'.json))
             /\ heap' = heap ) ]_vars

\* a forbidden type with an object fallback, fallback allowed, under a parent
C1_Witness ==
    /\ InstantiationReturned
    /\ TypeListed(call.json, call.forbiddenTypeNames)
    /\ call.allowFallback
    /\ call.parent = HostContainer
    /\ FallbackIsFragment(call.json)
    /\ TypeKnown(call, call.json.fallback[1])
    /\ result = NoObject
    /\ errors = <<ForbiddenTypeError(call, call.json)>>

-----------------------------------------------------------------------------
(* C3: with fallback allowed, an unknown type whose fallback is the string  *)
(* "drop" in any letter case yields no object, throws nothing, records      *)
(* exactly one unknown-type error and does not touch the parent's flag.     *)

C3_UnknownTypeDropYieldsNothing ==
    [][ ( /\ pc = "idle" /\ pc' = "done"
          /\ call'.allowFallback
          /\ TypeUnknown(call', call'.json)
          /\ FallbackIsDropString(call'.json) )
        => ( /\ result' = NoObject
             /\ ~thrown'
             /\ errors' = Append(errors, UnknownTypeError(call', call'.json))
             /\ heap' = heap ) ]_vars

\* {"type": "Foo", "fallback": "DROP"} under a parent whose flag is clear
C3_Witness ==
    /\ InstantiationReturned
    /\ call.op = "createElementInstance"
    /\ call.allowFallback
    /\ call.parent = HostContainer
    /\ TypeUnknown(call, call.json)
    /\ call.json.fallback = <<JString(StrDropUpper)>>
    /\ result = NoObject
    /\ errors = <<ValidationError("UnknownElementType", "Foo")>>
    /\ ~heap[HostContainer].shouldFallbackFlag

-----------------------------------------------------------------------------
(* C4: an unknown type with no fallback key and no parent yields nothing    *)
(* and records exactly one unknown-type error; no object is flagged.        *)

C4_UnknownTypeWithoutParentYieldsNothing ==
    [][ ( /\ pc = "idle" /\ pc' = "done"
          /\ call'.parent = NoObject
          /\ TypeUnknown(call', call'.json)
          /\ FallbackKeyAbsent(call'.json) )
        => ( /\ result' = NoObject
             /\ ~thrown'
             /\ errors' = Append(errors, UnknownTypeError(call', call'.json))
             /\ heap' = heap ) ]_vars

C4_Witness ==
    /\ InstantiationReturned
    /\ call.parent = NoObject
    /\ call.allowFallback
    /\ TypeUnknown(call, call.json)
    /\ FallbackKeyAbsent(call.json)
    /\ result = NoObject
    /\ Len(errors) = 1
    /\ ~heap[HostContainer].shouldFallbackFlag

-----------------------------------------------------------------------------
(* C5: when fallback is attempted, the fallback key is absent and a parent  *)
(* exists, the parent's should-fallback flag is set; the call returns       *)
(* nothing for an unknown type and the parsed instance itself when that     *)
(* instance reports shouldFallback().                                       *)

C5_AbsentFallbackFlagsParent ==
    ( /\ InstantiationReturned
      /\ call.allowFallback
      /\ call.parent # NoObject
      /\ FallbackKeyAbsent(call.json) )
    => /\ TypeUnknown(call, call.json)
          => /\ heap[call.parent].shouldFallbackFlag
             /\ result = NoObject
             /\ Len(heap) = 1
       /\ ( /\ TypeKnown(call, call.json)
            /\ NotAllMet(call.json.requires, HostCapabilitiesUnder(heap, call.parent)) )
          => /\ heap[call.parent].shouldFallbackFlag
             /\ result = FirstCreated
             /\ heap[result].parent = call.parent
             /\ heap[result].requires = call.json.requires

\* a registered type with an unmet requirement is kept and its parent flagged
C5_Witness ==
    /\ InstantiationReturned
    /\ call.allowFallback
    /\ call.parent = HostContainer
    /\ FallbackKeyAbsent(call.json)
    /\ TypeKnown(call, call.json)
    /\ NotAllMet(call.json.requires, HostCapabilitiesUnder(heap, call.parent))
    /\ result = FirstCreated
    /\ heap[HostContainer].shouldFallbackFlag

-----------------------------------------------------------------------------
(* C6: a chain J0, J1 = J0.fallback, ..., Jk in which every fragment before *)
(* Jk reaches the registry lookup and is unknown or parses to an instance   *)
(* with an unmet requirement, and Jk is known and reports no fallback,      *)
(* resolves to the instance built from Jk, whose parent is the original     *)
(* parent; one unknown-type error is recorded per unknown fragment, in      *)
(* chain order.                                                             *)

RECURSIVE FallbackChain(_)
FallbackChain(j) ==
    <<j>> \o (IF FallbackIsFragment(j) THEN FallbackChain(j.fallback[1]) ELSE << >>)

ChainFallsBack(c, j, caps) ==
    \/ TypeUnknown(c, j)
    \/ (TypeKnown(c, j) /\ NotAllMet(j.requires, caps))

ChainResolves(c, j, caps) ==
    TypeKnown(c, j) /\ ~NotAllMet(j.requires, caps)

\* the positions k at which the chain resolves (at most one)
ResolvingPositions(c, chain, caps) ==
    {k \in 1..Len(chain) :
        /\ ChainResolves(c, chain[k], caps)
        /\ \A i \in 1..(k - 1) : ChainFallsBack(c, chain[i], caps)}

\* objects a known fragment allocates: a ShowCardAction brings its card
ObjectsBuiltFor(c, j) ==
    IF ~TypeKnown(c, j) THEN 0
    ELSE IF j.type = "Action.ShowCard" THEN 2 ELSE 1

RECURSIVE ObjectsBuiltBefore(_, _, _)
ObjectsBuiltBefore(c, chain, k) ==
    IF k = 1 THEN 0
    ELSE ObjectsBuiltBefore(c, chain, k - 1) + ObjectsBuiltFor(c, chain[k - 1])

RECURSIVE UnknownErrorsBefore(_, _, _)
UnknownErrorsBefore(c, chain, k) ==
    IF k = 1 THEN << >>
    ELSE UnknownErrorsBefore(c, chain, k - 1) \o
         (IF TypeUnknown(c, chain[k - 1]) THEN <<UnknownTypeError(c, chain[k - 1])>> ELSE << >>)

IsUnknownTypeError(e) == e.error \in {"UnknownElementType", "UnknownActionType"}

RegisteredClass(c, j) ==
    LET registry == RegistryOf(c)
    IN  registry[CHOOSE i \in DOMAIN registry : registry[i].typeName = j.type].createInstance

C6_FallbackChainResolves ==
    ( InstantiationReturned /\ call.allowFallback )
    => LET chain == FallbackChain(call.json)
           caps == HostCapabilitiesUnder(heap, call.parent)
       IN  \A k \in ResolvingPositions(call, chain, caps) :
              /\ ~thrown
              /\ result = 1 + ObjectsBuiltBefore(call, chain, k) + 1
              /\ result <= Len(heap)
              /\ heap[result].class = RegisteredClass(call, chain[k])
              /\ heap[result].requires = chain[k].requires
              /\ heap[result].parent = call.parent
              /\ SelectSeq(errors, IsUnknownTypeError) = UnknownErrorsBefore(call, chain, k)

\* J0 unknown, J1 known with an unmet requirement, J2 resolves
C6_Witness ==
    /\ InstantiationReturned
    /\ call.allowFallback
    /\ call.parent = HostContainer
    /\ LET chain == FallbackChain(call.json)
           caps == HostCapabilitiesUnder(heap, call.parent)
       IN  /\ Len(chain) = 3
           /\ TypeUnknown(call, chain[1])
           /\ TypeKnown(call, chain[2]) /\ NotAllMet(chain[2].requires, caps)
           /\ 3 \in ResolvingPositions(call, chain, caps)
           /\ result = 3
           /\ Len(errors) = 1

-----------------------------------------------------------------------------
(* C7: an object whose requires names a capability the host does not        *)
(* satisfy reports shouldFallback() even though its flag is clear, and when *)
(* it is instantiated with fallback allowed its fallback is used: "drop"   *)
(* elides it, a fallback fragment replaces it, and with no fallback key the *)
(* parent is flagged.                                                       *)

C7_UnmetRequiresGatesTheObject ==
    /\ \A o \in 1..Len(heap) :
          RequiresUnmet(heap[o].requires, hostConfig(heap, o).hostCapabilities)
          => shouldFallback(heap, o)
    /\ ( /\ InstantiationReturned
         /\ call.allowFallback
         /\ TypeKnown(call, call.json)
         /\ RequiresUnmet(call.json.requires, HostCapabilitiesUnder(heap, call.parent)) )
       => /\ FallbackIsDropString(call.json) => result = NoObject
          /\ FallbackIsFragment(call.json) => result # FirstCreated
          /\ ( FallbackKeyAbsent(call.json) /\ call.parent # NoObject )
             => ( heap[call.parent].shouldFallbackFlag /\ result = FirstCreated )

\* {"type": "TextBlock", "requires": {"CapX": 1}, "fallback": {"type": "TextBlock"}}
\* on a host without CapX: the instance's flag is clear, yet it is replaced
C7_Witness ==
    /\ InstantiationReturned
    /\ call.allowFallback
    /\ TypeKnown(call, call.json)
    /\ RequiresUnmet(call.json.requires, HostCapabilitiesUnder(heap, call.parent))
    /\ FallbackIsFragment(call.json)
    /\ ~heap[FirstCreated].shouldFallbackFlag
    /\ shouldFallback(heap, FirstCreated)
    /\ result > FirstCreated

-----------------------------------------------------------------------------
(* Container.parse on the host's container *)

ItemTypeNames == {"TextBlock", "Image", "TextRun", "Foo"}

\* a child fragment may carry one level of fallback
ItemFragments == Fragments(ItemTypeNames, 1)

RECURSIVE SeqsUpTo(_, _)
SeqsUpTo(S, n) ==
    IF n = 0 THEN {<< >>}
    ELSE LET shorter == SeqsUpTo(S, n - 1)
         IN  shorter \cup {Append(q, x) : q \in {t \in shorter : Len(t) = n - 1}, x \in S}

ContainerFragments ==
    {JObject("Container", "", {}, << >>, items) : items \in SeqsUpTo(ItemFragments, MaxItems)}

InitParse ==
    /\ \E hc \in {<< >>, <<capXHostConfig>>}, forbidden \in {<< >>, <<"Image">>} :
          heap = <<[CardObject("Container") EXCEPT !.hostConfigOverride = hc,
                                                  !.forbiddenElementTypes = forbidden]>>
    /\ errors = << >>
    /\ thrown = FALSE
    /\ result = NoObject
    /\ call = NoCall
    /\ pc = "idle"
    /\ report = NoReport
    /\ elementTypeRegistry = ElementTypeRegistry_reset
    /\ actionTypeRegistry = ActionTypeRegistry_reset

ContainerParse ==
    /\ pc = "idle"
    /\ \E json \in ContainerFragments :
          Returns(Returned(Container_parse(Machine(heap, errors, FALSE), HostContainer, json),
                           NoObject),
                  Call("Container.parse", HostContainer, json, << >>, FALSE))

NextParse == ContainerParse \/ Release

SpecParse == InitParse /\ [][NextParse]_vars

-----------------------------------------------------------------------------
(* C2: in a container whose forbidden element types include "Image", a     *)
(* child fragment of type Image with a valid object fallback adds nothing   *)
(* to the container, whereas the same fragment with an unregistered type    *)
(* adds its fallback element.                                               *)

ParsedOneChild ==
    /\ pc = "done"
    /\ call.op = "Container.parse"
    /\ Len(call.json.items) = 1
    /\ FallbackIsFragment(call.json.items[1])
    /\ LET fb == call.json.items[1].fallback[1]
       IN  /\ fb.type = "TextBlock"
           /\ ~NotAllMet(fb.requires, hostConfig(heap, HostContainer).hostCapabilities)

C2_ForbiddenImageAddsNothing ==
    ParsedOneChild
    => /\ ( /\ TypeListed(call.json.items[1], heap[HostContainer].forbiddenElementTypes)
            /\ call.json.items[1].type = "Image" )
          => heap[HostContainer].items = << >>
       /\ call.json.items[1].type = "Foo"
          => /\ Len(heap[HostContainer].items) = 1
             /\ heap[heap[HostContainer].items[1]].class = "TextBlock"

-----------------------------------------------------------------------------
(* ValidationResults and the validation pass *)

\* new ValidationResults(): failures = [], allIds = {}
NewValidationResults == [failures |-> << >>, allIds |-> << >>, thrown |-> FALSE]

ValidationFailure(o) == [cardObject |-> o, errors |-> << >>]

\* no entry is ever found
getFailureIndex_neverFound(R, o) == 0

\* the index of the entry for this object, 0 when there is none
getFailureIndex(R, o) ==
    LET hits == {i \in 1..Len(R.failures) : R.failures[i].cardObject = o}
    IN  IF hits = {} THEN 0 ELSE CHOOSE i \in hits : \A j \in hits : i <= j

addFailure(R, o, error) ==
    LET index == getFailureIndex(R, o)
        listed == IF index = 0 THEN Append(R.failures, ValidationFailure(o)) ELSE R.failures
        at == IF index = 0 THEN Len(listed) ELSE index
    IN  [R EXCEPT !.failures = [listed EXCEPT ![at].errors = Append(@, error)]]

(* allIds is a plain JavaScript object used as a dictionary.  Its own        *)
(* properties are held as a function from keys to counts.  Two keys do not  *)
(* behave like dictionary entries: assigning a number to "__proto__" runs   *)
(* the prototype setter and creates no own property, and an own property    *)
(* named "hasOwnProperty" shadows the method the next lookup calls.          *)

\* context.allIds.hasOwnProperty is still the inherited method
AllIds_methodCallable(allIds) == "hasOwnProperty" \notin DOMAIN allIds

\* context.allIds.hasOwnProperty(id)
AllIds_hasOwnProperty(allIds, id) == id \in DOMAIN allIds

\* context.allIds[id] = n
AllIds_assign(allIds, id, n) ==
    IF id = "__proto__" THEN allIds
    ELSE [k \in DOMAIN allIds \cup {id} |-> IF k = id THEN n ELSE allIds[k]]

\* every occurrence after the first reported: the == 1 test left out
CardObject_internalValidateProperties_everyLater(R, h, o) ==
    IF isNullOrEmpty(h[o].id) THEN R
    ELSE IF ~AllIds_methodCallable(R.allIds) THEN [R EXCEPT !.thrown = TRUE]
    ELSE IF AllIds_hasOwnProperty(R.allIds, h[o].id)
    THEN [addFailure(R, o, ValidationError("DuplicateId", h[o].id))
             EXCEPT !.allIds = AllIds_assign(R.allIds, h[o].id, R.allIds[h[o].id] + 1)]
    ELSE [R EXCEPT !.allIds = AllIds_assign(R.allIds, h[o].id, 1)]

\* CardObject.internalValidateProperties
CardObject_internalValidateProperties(R, h, o) ==
    IF isNullOrEmpty(h[o].id) THEN R
    ELSE IF ~AllIds_methodCallable(R.allIds) THEN [R EXCEPT !.thrown = TRUE]
    ELSE IF AllIds_hasOwnProperty(R.allIds, h[o].id)
    THEN LET reported ==
                 IF R.allIds[h[o].id] = 1
                 THEN addFailure(R, o, ValidationError("DuplicateId", h[o].id))
                 ELSE R
         IN  [reported EXCEPT !.allIds = AllIds_assign(R.allIds, h[o].id, R.allIds[h[o].id] + 1)]
    ELSE [R EXCEPT !.allIds = AllIds_assign(R.allIds, h[o].id, 1)]

\* CardElementContainer.isElementAllowed
isElementAllowed(h, c, element, forbiddenElementTypes) ==
    IF ~hostConfig(h, c).supportsInteractivity /\ isInteractive(h[element]) THEN FALSE
    ELSE ~\E i \in 1..Len(forbiddenElementTypes) :
              getJsonTypeName(h[element]) = forbiddenElementTypes[i]

\* isActionAllowed
isActionAllowed(h, action, forbiddenActionTypes) ==
    ~\E i \in 1..Len(forbiddenActionTypes) :
         getJsonTypeName(h[action]) = forbiddenActionTypes[i]

RECURSIVE internalValidateProperties(_, _, _)
RECURSIVE CardElementContainer_validateItems(_, _, _, _)
RECURSIVE ActionCollection_validateItems(_, _, _, _)

\* the loop of CardElementContainer.internalValidateProperties, from item i
CardElementContainer_validateItems(R, h, c, i) ==
    IF i > Len(h[c].items) \/ R.thrown THEN R
    ELSE LET item == h[c].items[i]
             r1 == IF ~hostConfig(h, c).supportsInteractivity /\ isInteractive(h[item])
                   THEN addFailure(R, c, ValidationError("InteractivityNotAllowed", ""))
                   ELSE R
             r2 == IF ~isElementAllowed(h, c, item, h[c].forbiddenElementTypes)
                   THEN addFailure(r1, c, ValidationError("InteractivityNotAllowed",
                                                          getJsonTypeName(h[item])))
                   ELSE r1
         IN  CardElementContainer_validateItems(internalValidateProperties(r2, h, item), h, c, i + 1)

\* the loop of ActionCollection.validateProperties, from action i
ActionCollection_validateItems(R, h, owner, i) ==
    IF i > Len(h[owner].actions) \/ R.thrown THEN R
    ELSE LET item == h[owner].actions[i]
             r1 == IF ~isActionAllowed(h, item, h[owner].forbiddenActionTypes)
                   THEN addFailure(R, owner, ValidationError("ActionTypeNotAllowed",
                                                             getJsonTypeName(h[item])))
                   ELSE R
         IN  ActionCollection_validateItems(internalValidateProperties(r1, h, item), h, owner, i + 1)

\* ActionCollection.validateProperties
ActionCollection_validateProperties(R, h, owner) ==
    LET hc == hostConfig(h, owner)
        r1 == IF hc.maxActions # 0 /\ Len(h[owner].actions) > hc.maxActions
              THEN addFailure(R, owner, ValidationError("TooManyActions", ""))
              ELSE R
        r2 == IF Len(h[owner].actions) > 0 /\ ~hc.supportsInteractivity
              THEN addFailure(r1, owner, ValidationError("InteractivityNotAllowed", ""))
              ELSE r1
    IN  ActionCollection_validateItems(r2, h, owner, 1)

\* CardElementContainer.internalValidateProperties
CardElementContainer_internalValidateProperties(R, h, c) ==
    LET own == CardObject_internalValidateProperties(R, h, c)
        children == CardElementContainer_validateItems(own, h, c, 1)
    IN  IF children.thrown \/ h[c].selectAction = NoObject THEN children
        ELSE internalValidateProperties(children, h, h[c].selectAction)

\* ContainerWithActions.internalValidateProperties
ContainerWithActions_internalValidateProperties(R, h, c) ==
    LET contained == CardElementContainer_internalValidateProperties(R, h, c)
    IN  IF contained.thrown THEN contained
        ELSE ActionCollection_validateProperties(contained, h, c)

\* AdaptiveCard.internalValidateProperties
AdaptiveCard_internalValidateProperties(R, h, c) ==
    LET base == ContainerWithActions_internalValidateProperties(R, h, c)
        typed == IF h[c].typeNameValue # "AdaptiveCard"
                 THEN addFailure(base, c, ValidationError("MissingCardType", ""))
                 ELSE base
    IN  IF base.thrown THEN base
        ELSE IF ~bypassVersionCheck(h[c]) /\ ~h[c].version.isSet
        THEN addFailure(typed, c, ValidationError("PropertyCantBeNull", "version"))
        ELSE IF ~isVersionSupported(h[c])
        THEN addFailure(typed, c, ValidationError("UnsupportedCardVersion", ""))
        ELSE typed

\* ActionSet.internalValidateProperties
ActionSet_internalValidateProperties(R, h, o) ==
    LET own == CardObject_internalValidateProperties(R, h, o)
    IN  IF own.thrown THEN own ELSE ActionCollection_validateProperties(own, h, o)

\* ShowCardAction.internalValidateProperties
ShowCardAction_internalValidateProperties(R, h, a) ==
    LET own == CardObject_internalValidateProperties(R, h, a)
    IN  IF own.thrown THEN own ELSE internalValidateProperties(own, h, h[a].card)

\* Input.internalValidateProperties
Input_internalValidateProperties(R, h, o) ==
    LET own == CardObject_internalValidateProperties(R, h, o)
    IN  IF own.thrown THEN own
        ELSE IF isNullOrEmpty(h[o].id)
        THEN addFailure(own, o, ValidationError("PropertyCantBeNull", "id"))
        ELSE own

\* the override that applies to the object's class
internalValidateProperties(R, h, o) ==
    IF R.thrown THEN R
    ELSE IF h[o].class \in CardClasses THEN AdaptiveCard_internalValidateProperties(R, h, o)
    ELSE IF h[o].class \in ElementContainerClasses
    THEN CardElementContainer_internalValidateProperties(R, h, o)
    ELSE IF h[o].class = "ActionSet" THEN ActionSet_internalValidateProperties(R, h, o)
    ELSE IF h[o].class = "ShowCardAction" THEN ShowCardAction_internalValidateProperties(R, h, o)
    ELSE IF h[o].class \in InputClasses THEN Input_internalValidateProperties(R, h, o)
    ELSE CardObject_internalValidateProperties(R, h, o)

\* CardObject.validateProperties
validateProperties(h, o) == internalValidateProperties(NewValidationResults, h, o)

-----------------------------------------------------------------------------
(* Specification of a card held by a host: an AdaptiveCard (heap[1]) with   *)
(* one TextBlock and one Action.ShowCard, whose InlineAdaptiveCard is the   *)
(* fourth object.  The host assigns the card's version, sets fallback flags *)
(* and validates.                                                           *)

RootCard == 1
CardTextBlock == RootCard + 1
CardShowCard == RootCard + 2
CardInline == RootCard + 3

\* what Version.parse can hand to the version property: nothing (no version
\* key), a string that is not major.minor, or a parsed pair around the latest
VersionValues ==
    {NoVersion, InvalidVersion} \cup
    {Version(major, minor) : major \in 0..(LatestMajor + 1), minor \in 0..(LatestMinor + 1)}

\* card.addItem(textBlock); card.addAction(showCard)
CardTree(hc, requiresOf) ==
    LET built == New(New(New(Machine(<< >>, << >>, FALSE), "AdaptiveCard").M, "TextBlock").M,
                     "ShowCardAction").M
        withItem == insertItemAt(built, RootCard, CardTextBlock, -1, TRUE)
        withAction == setParent([withItem EXCEPT !.heap[RootCard].actions = <<CardShowCard>>],
                                CardShowCard, RootCard)
    IN  [o \in 1..Len(withAction.heap) |->
            [withAction.heap[o] EXCEPT
                !.requires = requiresOf[o],
                !.hostConfigOverride = IF o = RootCard THEN hc ELSE @]]

InitCard ==
    /\ \E hc \in {<< >>, <<capXHostConfig>>},
          requiresOf \in [RootCard..CardInline -> RequiresChoices] :
          heap = CardTree(hc, requiresOf)
    /\ errors = << >>
    /\ thrown = FALSE
    /\ result = NoObject
    /\ call = NoCall
    /\ pc = "idle"
    /\ report = NoReport
    /\ elementTypeRegistry = ElementTypeRegistry_reset
    /\ actionTypeRegistry = ActionTypeRegistry_reset

\* card.version = v
SetVersion ==
    /\ \E v \in VersionValues : heap' = [heap EXCEPT ![RootCard].version = v]
    /\ pc' = "idle"
    /\ report' = NoReport
    /\ UNCHANGED <<errors, thrown, result, call, registries>>

\* o.setShouldFallback(value)
SetShouldFallback ==
    /\ \E o \in DOMAIN heap, value \in BOOLEAN :
          heap' = setShouldFallback(Machine(heap, errors, thrown), o, value).heap
    /\ pc' = "idle"
    /\ report' = NoReport
    /\ UNCHANGED <<errors, thrown, result, call, registries>>

\* card.validateProperties()
ValidateCard ==
    /\ pc = "idle"
    /\ report' = validateProperties(heap, RootCard)
    /\ pc' = "validated"
    /\ UNCHANGED <<heap, errors, thrown, result, call, registries>>

NextCard == SetVersion \/ SetShouldFallback \/ ValidateCard

SpecCard == InitCard /\ [][NextCard]_vars

\* the flag and the requires test, as the spec words them
ExplicitlyFlagged(o) == heap[o].shouldFallbackFlag

RequiresNotAllMet(o) ==
    NotAllMet(heap[o].requires, hostConfig(heap, o).hostCapabilities)

\* the version is greater than the latest supported one
VersionGreaterThanLatest(v) ==
    /\ v.isSet
    /\ v.isValid
    /\ \/ v.major > LatestMajor
       \/ (v.major = LatestMajor /\ v.minor > LatestMinor)

\* the version is present, well-formed and at most the latest supported one
VersionAtMostLatest(v) ==
    /\ v.isSet
    /\ v.isValid
    /\ \/ v.major < LatestMajor
       \/ (v.major = LatestMajor /\ v.minor <= LatestMinor)

\* the card is subject to the version check and does not pass it
VersionGateCloses(o) ==
    /\ heap[o].class = "AdaptiveCard"
    /\ ~VersionAtMostLatest(heap[o].version)

FailuresAttachedTo(o, error) ==
    UNION {{<<i, k>> : k \in {n \in 1..Len(report.failures[i].errors) :
                                  report.failures[i].errors[n].error = error}} :
           i \in {m \in 1..Len(report.failures) : report.failures[m].cardObject = o}}

(* C8 as the spec states it: for every card object, the AdaptiveCard        *)
(* included, shouldFallback() is true exactly when the explicit flag is set *)
(* or the declared requires are not all met by the host capabilities; no    *)
(* other condition makes it true.                                           *)
C8_ShouldFallbackIffFlagOrRequires ==
    \A o \in DOMAIN heap :
        shouldFallback(heap, o) <=> (ExplicitlyFlagged(o) \/ RequiresNotAllMet(o))

(* C8 amended: shouldFallback() is true exactly when the explicit flag is   *)
(* set, or the declared requires are not all met by the host capabilities,  *)
(* or the object is an AdaptiveCard that does not bypass the version check  *)
(* and its version is missing, malformed or greater than the latest.        *)
C8_ShouldFallbackIffFlagRequiresOrVersion ==
    \A o \in DOMAIN heap :
        shouldFallback(heap, o) <=>
            (ExplicitlyFlagged(o) \/ RequiresNotAllMet(o) \/ VersionGateCloses(o))

\* each of the three causes alone makes an object fall back, and an inline
\* card without a version does not
C8_Witness ==
    /\ VersionGateCloses(RootCard)
    /\ ~ExplicitlyFlagged(RootCard) /\ ~RequiresNotAllMet(RootCard)
    /\ shouldFallback(heap, RootCard)
    /\ ExplicitlyFlagged(CardTextBlock) /\ ~RequiresNotAllMet(CardTextBlock)
    /\ shouldFallback(heap, CardTextBlock)
    /\ ~ExplicitlyFlagged(CardShowCard) /\ RequiresNotAllMet(CardShowCard)
    /\ shouldFallback(heap, CardShowCard)
    /\ ~heap[CardInline].version.isSet
    /\ ~shouldFallback(heap, CardInline)

(* C9, the version gate: an AdaptiveCard whose version is greater than the  *)
(* latest supported one (higher major, or equal major and higher minor) has *)
(* an UnsupportedCardVersion failure attached to it by validateProperties() *)
(* and shouldFallback() true; with a version at most the latest there is no *)
(* such failure and shouldFallback() is decided by the flag and the         *)
(* requires alone.                                                          *)
C9_VersionGate ==
    LET v == heap[RootCard].version
    IN  /\ VersionGreaterThanLatest(v) =>
              /\ shouldFallback(heap, RootCard)
              /\ pc = "validated" =>
                    FailuresAttachedTo(RootCard, "UnsupportedCardVersion") # {}
        /\ VersionAtMostLatest(v) =>
              /\ shouldFallback(heap, RootCard) <=>
                    (ExplicitlyFlagged(RootCard) \/ RequiresNotAllMet(RootCard))
              /\ pc = "validated" =>
                    \A o \in DOMAIN heap : FailuresAttachedTo(o, "UnsupportedCardVersion") = {}

\* a validated card one minor version above the latest, neither flagged nor
\* short of a capability
C9_Witness ==
    /\ pc = "validated"
    /\ heap[RootCard].version = Version(LatestMajor, LatestMinor + 1)
    /\ ~ExplicitlyFlagged(RootCard) /\ ~RequiresNotAllMet(RootCard)
    /\ shouldFallback(heap, RootCard)
    /\ Cardinality(FailuresAttachedTo(RootCard, "UnsupportedCardVersion")) = 1

-----------------------------------------------------------------------------
(* Specification of duplicate-id detection: a host builds a tree under a    *)
(* Container (heap[1]) by adding elements that carry an id, and validates   *)
(* the tree from its root.                                                  *)

\* the largest number of objects in the tree
MaxNodes == 3

TreeRoot == 1

\* the ids a card can carry: none, two ordinary ones, and two names that
\* Object.prototype also defines
ElementIds == {"", "a", "b", "__proto__", "hasOwnProperty"}

InitValidate ==
    /\ \E id \in ElementIds : heap = <<[CardObject("Container") EXCEPT !.id = id]>>
    /\ errors = << >>
    /\ thrown = FALSE
    /\ result = NoObject
    /\ call = NoCall
    /\ pc = "idle"
    /\ report = NoReport
    /\ elementTypeRegistry = ElementTypeRegistry_reset
    /\ actionTypeRegistry = ActionTypeRegistry_reset

\* let item = new TextBlock() or new Container(); item.id = id; c.addItem(item)
AddItem ==
    /\ Len(heap) < MaxNodes
    /\ \E c \in {o \in DOMAIN heap : heap[o].class = "Container"},
          class \in {"TextBlock", "Container"}, id \in ElementIds :
          LET made == New(Machine(heap, errors, FALSE), class)
              named == [made.M EXCEPT !.heap[made.result].id = id]
              added == insertItemAt(named, c, made.result, -1, FALSE)
          IN  /\ heap' = added.heap
              /\ thrown' = added.thrown
    /\ pc' = "idle"
    /\ report' = NoReport
    /\ UNCHANGED <<errors, result, call, registries>>

\* root.validateProperties()
ValidateTree ==
    /\ pc = "idle"
    /\ report' = validateProperties(heap, TreeRoot)
    /\ pc' = "validated"
    /\ UNCHANGED <<heap, errors, thrown, result, call, registries>>

NextValidate == AddItem \/ ValidateTree

SpecValidate == InitValidate /\ [][NextValidate]_vars

\* the card objects in the order the pass visits them: an object, then its
\* items from first to last, each with what it holds
RECURSIVE VisitedFrom(_, _)
RECURSIVE VisitedItems(_, _, _)
VisitedFrom(h, o) == <<o>> \o VisitedItems(h, h[o].items, 1)

VisitedItems(h, items, i) ==
    IF i > Len(items) THEN << >>
    ELSE VisitedFrom(h, items[i]) \o VisitedItems(h, items, i + 1)

Visited == VisitedFrom(heap, TreeRoot)

\* positions in the traversal of the objects that carry this id
Carrying(id) == {k \in 1..Len(Visited) : heap[Visited[k]].id = id}

\* the DuplicateId failures reported for this id, as <<object, position in
\* its error list>>
DuplicateIdFailures(id) ==
    UNION {{<<report.failures[i].cardObject, k>> :
                k \in {n \in 1..Len(report.failures[i].errors) :
                          /\ report.failures[i].errors[n].error = "DuplicateId"
                          /\ report.failures[i].errors[n].typeName = id}} :
           i \in 1..Len(report.failures)}

SecondCarrying(id) ==
    Visited[CHOOSE k \in Carrying(id) : Cardinality({j \in Carrying(id) : j < k}) = 1]

(* C10 as the spec states it: after validateProperties(), a non-empty id    *)
(* that occurs exactly twice among the visited objects has exactly one      *)
(* DuplicateId failure, attached to the second of them in traversal order;  *)
(* an id that occurs once, and the empty id, have none; and allIds[id] is   *)
(* the number of visited objects carrying the id.                           *)
C10_DuplicateIdsReportedOnce ==
    pc = "validated" =>
        /\ ~report.thrown
        /\ \A id \in ElementIds \ {""} :
              /\ Cardinality(Carrying(id)) = 2 =>
                    /\ Cardinality(DuplicateIdFailures(id)) = 1
                    /\ \A f \in DuplicateIdFailures(id) : f[1] = SecondCarrying(id)
              /\ Cardinality(Carrying(id)) = 1 => DuplicateIdFailures(id) = {}
              /\ Cardinality(Carrying(id)) > 0 =>
                    /\ id \in DOMAIN report.allIds
                    /\ report.allIds[id] = Cardinality(Carrying(id))
        /\ DuplicateIdFailures("") = {}

-----------------------------------------------------------------------------
\* the ids that behave as dictionary keys of a plain object
OrdinaryIds == {"a", "b"}

\* the k-th object, in traversal order, that carries the id
NthCarrying(id, n) ==
    Visited[CHOOSE k \in Carrying(id) : Cardinality({j \in Carrying(id) : j < k}) = n - 1]

\* the objects a DuplicateId failure for this id is attached to
ReportedFor(id) == {f[1] : f \in DuplicateIdFailures(id)}

-----------------------------------------------------------------------------
\* the visited objects whose id is recorded in allIds when the pass reaches them
CountedInReport(o) == heap[o].id \in DOMAIN report.allIds

(* C15 as the spec states it: validateProperties() never throws; it visits  *)
(* every child even after failures were found, so every visited object with *)
(* an id that is an ordinary key is counted in allIds; and a second call on *)
(* the unchanged tree returns an equal report.  (The pass changes nothing   *)
(* in the tree: ValidateTree leaves heap as it is.)                         *)
C15_ValidationIsAPureCompletePass ==
    pc = "validated" =>
        /\ ~report.thrown
        /\ \A k \in 1..Len(Visited) :
              heap[Visited[k]].id \in OrdinaryIds => CountedInReport(Visited[k])
        /\ validateProperties(heap, TreeRoot) = report

-----------------------------------------------------------------------------
(* Serialisation *)

RECURSIVE toJSON(_, _)
RECURSIVE toJSONItems(_, _, _)

\* SerializableObject.toJSON for the CardObject schema: "type", "id" and
\* "requires"; a property that has its default value is left out
SerializableObject_toJSON(h, o) ==
    JObject(getJsonTypeName(h[o]), h[o].id, h[o].requires, << >>, << >>)

\* Utils.setArrayProperty(result, name, items): each item's own toJSON()
toJSONItems(h, items, i) ==
    IF i > Len(items) THEN << >>
    ELSE <<toJSON(h, items[i])>> \o toJSONItems(h, items, i + 1)

\* Container.toJSON
Container_toJSON(h, c) ==
    [SerializableObject_toJSON(h, c) EXCEPT !.items = toJSONItems(h, h[c].items, 1)]

\* ActionSet.toJSON: the array ActionCollection.toJSON makes of the actions
ActionSet_toJSON(h, as) ==
    [SerializableObject_toJSON(h, as) EXCEPT !.items = toJSONItems(h, h[as].actions, 1)]

\* ColumnSet.toJSON writes its columns as Container.toJSON writes its items
toJSON(h, o) ==
    IF h[o].class \in ContainerClasses \cup {"Column", "ColumnSet"} THEN Container_toJSON(h, o)
    ELSE IF h[o].class = "ActionSet" THEN ActionSet_toJSON(h, o)
    ELSE SerializableObject_toJSON(h, o)

\* J with its default-valued keys removed: an absent id, an empty requires
\* and an empty items array are already held as defaults; a "fallback" key
\* that is null or "" is taken as default-valued too
RECURSIVE WithoutDefaults(_)
WithoutDefaults(j) ==
    IF j.kind # "object" THEN j
    ELSE [j EXCEPT !.fallback = IF IsFalsy(JGet(j.fallback)) THEN << >>
                                ELSE <<WithoutDefaults(j.fallback[1])>>,
                   !.items = [i \in 1..Len(j.items) |-> WithoutDefaults(j.items[i])]]

\* new Container() under the same host, parsed from the serialised card
ParsedAgain(out) ==
    LET made == New(Machine(heap, << >>, FALSE), "Container")
        hosted == [made.M EXCEPT !.heap[made.result].hostConfigOverride =
                                     heap[HostContainer].hostConfigOverride]
    IN  Returned(Container_parse(hosted, made.result, out), made.result)

(* C16 as the spec states it: after container.parse(J), container.toJSON()  *)
(* is deep-equal to J with its default-valued keys removed, for fragments   *)
(* whose items carry a fallback key too, and parsing that output again      *)
(* gives a tree with the same types and the same children in the same order.*)
C16_RoundTripMinimality ==
    (pc = "done" /\ call.op = "Container.parse" /\ ~thrown) =>
        LET out == toJSON(heap, HostContainer)
            again == ParsedAgain(out)
        IN  /\ out = WithoutDefaults(call.json)
            /\ ~again.M.thrown
            /\ toJSON(again.M.heap, again.result) = out

-----------------------------------------------------------------------------
(* Child collections other than Container's items *)

isInline(o) == o.class = "TextRun"

\* ColumnSet.addColumn
addColumn(M, cs, column) ==
    IF M.heap[column].parent = NoObject
    THEN setParent([M EXCEPT !.heap[cs].items = Append(@, column)], column, cs)
    ELSE [M EXCEPT !.thrown = TRUE]

\* ImageSet.addImage
addImage(M, is, image) ==
    IF M.heap[image].parent = NoObject
    THEN setParent([M EXCEPT !.heap[is].items = Append(@, image)], image, is)
    ELSE [M EXCEPT !.thrown = TRUE]

\* RichTextBlock.internalAddInline
internalAddInline(M, rtb, inline, forceAdd) ==
    IF ~isInline(M.heap[inline]) THEN [M EXCEPT !.thrown = TRUE]
    ELSE LET doAdd == M.heap[inline].parent = NoObject \/ forceAdd
         IN  IF ~doAdd /\ M.heap[inline].parent # rtb THEN [M EXCEPT !.thrown = TRUE]
             ELSE [setParent(M, inline, rtb) EXCEPT !.heap[rtb].inlines = Append(@, inline)]

-----------------------------------------------------------------------------
(* Specification of a whole card: under an AdaptiveCard (heap[1]) the host  *)
(* builds what a parsed card can hold (items, columns, images, inlines,     *)
(* select actions, actions and show cards) and validates from the root.     *)

\* the largest number of card objects in the card
MaxCardObjects == 4

FlatIds == {"", "a"}

\* new class(); x.id = id
NewWithId(M, class, id) ==
    LET made == New(M, class)
    IN  Returned([made.M EXCEPT !.heap[made.result].id = id], made.result)

InitFlat ==
    /\ \E id \in FlatIds : heap = <<[CardObject("AdaptiveCard") EXCEPT !.id = id]>>
    /\ errors = << >>
    /\ thrown = FALSE
    /\ result = NoObject
    /\ call = NoCall
    /\ pc = "idle"
    /\ report = NoReport
    /\ elementTypeRegistry = ElementTypeRegistry_reset
    /\ actionTypeRegistry = ActionTypeRegistry_reset

Built(M) ==
    /\ heap' = M.heap
    /\ thrown' = M.thrown
    /\ pc' = "idle"
    /\ report' = NoReport
    /\ UNCHANGED <<errors, result, call, registries>>

\* c.addItem(new X()) on a Container, a Column or a card
FlatAddItem ==
    /\ Len(heap) < MaxCardObjects
    /\ \E c \in {o \in DOMAIN heap : heap[o].class \in ContainerClasses \cup {"Column"}},
          class \in {"Container", "RichTextBlock", "Image", "ImageSet", "ColumnSet", "ActionSet",
                     "TextInput"},
          id \in FlatIds :
          LET made == NewWithId(Machine(heap, errors, FALSE), class, id)
          IN  Built(insertItemAt(made.M, c, made.result, -1, FALSE))

\* columnSet.addColumn(new Column())
FlatAddColumn ==
    /\ Len(heap) < MaxCardObjects
    /\ \E cs \in {o \in DOMAIN heap : heap[o].class = "ColumnSet"}, id \in FlatIds :
          LET made == NewWithId(Machine(heap, errors, FALSE), "Column", id)
          IN  Built(addColumn(made.M, cs, made.result))

\* imageSet.addImage(new Image())
FlatAddImage ==
    /\ Len(heap) < MaxCardObjects
    /\ \E is \in {o \in DOMAIN heap : heap[o].class = "ImageSet"}, id \in FlatIds :
          LET made == NewWithId(Machine(heap, errors, FALSE), "Image", id)
          IN  Built(addImage(made.M, is, made.result))

\* richTextBlock.addInline(new TextRun())
FlatAddInline ==
    /\ Len(heap) < MaxCardObjects
    /\ \E rtb \in {o \in DOMAIN heap : heap[o].class = "RichTextBlock"}, id \in FlatIds :
          LET made == NewWithId(Machine(heap, errors, FALSE), "TextRun", id)
          IN  Built(internalAddInline(made.M, rtb, made.result, FALSE))

\* what parsing "selectAction" / "inlineAction" does: the action gets the
\* element as its parent and becomes the element's action
FlatSetSelectAction ==
    /\ Len(heap) < MaxCardObjects
    /\ \E o \in {x \in DOMAIN heap :
                    /\ heap[x].class \in {"Container", "Column", "ColumnSet", "Image",
                                          "TextRun", "TextInput"}
                    /\ heap[x].selectAction = NoObject},
          id \in FlatIds :
          LET made == NewWithId(Machine(heap, errors, FALSE), "SubmitAction", id)
              owned == setParent(made.M, made.result, o)
          IN  Built([owned EXCEPT !.heap[o].selectAction = made.result])

\* card.addAction(new X()) / actionSet.addAction(new X())
FlatAddAction ==
    /\ \E owner \in {o \in DOMAIN heap : heap[o].class \in CardClasses \cup {"ActionSet"}},
          class \in {"SubmitAction", "ShowCardAction"}, id \in FlatIds :
          /\ Len(heap) + (IF class = "ShowCardAction" THEN 2 ELSE 1) <= MaxCardObjects
          /\ LET made == NewWithId(Machine(heap, errors, FALSE), class, id)
             IN  Built(ActionCollection_addAction(made.M, owner, made.result))

\* card.validateProperties()
FlatValidate ==
    /\ pc = "idle"
    /\ report' = validateProperties(heap, RootCard)
    /\ pc' = "validated"
    /\ UNCHANGED <<heap, errors, thrown, result, call, registries>>

NextFlat ==
    \/ FlatAddItem \/ FlatAddColumn \/ FlatAddImage \/ FlatAddInline
    \/ FlatSetSelectAction \/ FlatAddAction \/ FlatValidate

SpecFlat == InitFlat /\ [][NextFlat]_vars

\* some DuplicateId failure names this id
DuplicateIdReported(id) ==
    \E i \in 1..Len(report.failures) :
        \E k \in 1..Len(report.failures[i].errors) :
            /\ report.failures[i].errors[k].error = "DuplicateId"
            /\ report.failures[i].errors[k].typeName = id

(* C12 as the spec states it: any two card objects of the card that carry   *)
(* the same non-empty id, wherever they are (nested containers, columns,    *)
(* inlines, images, actions, select actions, a show card's card), produce   *)
(* a DuplicateId failure from validateProperties() on the root.             *)
C12_FlatNamespaceOverTheCard ==
    pc = "validated" =>
        \A o1, o2 \in DOMAIN heap :
            (o1 # o2 /\ heap[o1].id # "" /\ heap[o1].id = heap[o2].id)
                => DuplicateIdReported(heap[o1].id)

-----------------------------------------------------------------------------
(* C13 as the spec states it: parsing never throws.  Whatever JSON object   *)
(* Container.parse is given, children of a registered type that cannot be   *)
(* used in that position included, the call returns normally and problems   *)
(* are only recorded in the error list.                                     *)
C13_ParsingNeverThrows ==
    (pc = "done" /\ call.op = "Container.parse") => ~thrown

-----------------------------------------------------------------------------
(* Adding to and removing from child collections *)

\* a sequence without its i-th element (splice(i, 1))
RemoveAt(seq, i) == SubSeq(seq, 1, i - 1) \o SubSeq(seq, i + 1, Len(seq))

\* Container.addItem
addItem(M, c, item) == insertItemAt(M, c, item, -1, FALSE)

\* Container.insertItemBefore: indexOf is -1 when insertBefore is not an item
insertItemBefore(M, c, item, insertBefore) ==
    insertItemAt(M, c, item, indexOf(M.heap[c].items, insertBefore) - 1, FALSE)

\* Container.insertItemAfter
insertItemAfter(M, c, item, insertAfter) ==
    insertItemAt(M, c, item, indexOf(M.heap[c].items, insertAfter), FALSE)

\* Container.removeItem; ColumnSet.removeItem and ImageSet.removeItem first
\* test instanceof Column / Image
removeItem(M, c, item) ==
    LET itemIndex == indexOf(M.heap[c].items, item)
        rightClass == CASE M.heap[c].class = "ColumnSet" -> M.heap[item].class = "Column"
                        [] M.heap[c].class = "ImageSet" -> M.heap[item].class = "Image"
                        [] OTHER -> TRUE
    IN  IF rightClass /\ itemIndex > 0
        THEN Returned(setParent([M EXCEPT !.heap[c].items = RemoveAt(@, itemIndex)],
                                item, NoObject), TRUE)
        ELSE Returned(M, FALSE)

\* an ActionButton: the action it stands for and its state
ActionButton(action) == [action |-> action, state |-> "Normal"]

\* ActionCollection.hideActionCard
hideActionCard(M, owner) == [M EXCEPT !.heap[owner].expandedAction = NoObject]

\* ActionCollection.showActionCard
showActionCard(M, owner, action) == [M EXCEPT !.heap[owner].expandedAction = action]

\* ActionCollection.collapseExpandedAction
collapseExpandedAction(M, owner) ==
    hideActionCard(
        [M EXCEPT !.heap[owner].buttons =
                      [i \in DOMAIN @ |-> [@[i] EXCEPT !.state = "Normal"]]],
        owner)

\* ActionCollection.expandShowCardAction
expandShowCardAction(M, owner, action) ==
    LET buttons == M.heap[owner].buttons
    IN  showActionCard(
            [M EXCEPT !.heap[owner].buttons =
                          [i \in DOMAIN buttons |->
                              [buttons[i] EXCEPT !.state =
                                  IF buttons[i].action # action THEN "Subdued"
                                  ELSE "Expanded"]]],
            owner, action)

\* ActionCollection.actionClicked(actionButton), for a button that stands for
\* this action; the result is the action that was executed, if any
actionClicked(M, owner, action) ==
    IF M.heap[action].class # "ShowCardAction"
    THEN Returned(collapseExpandedAction(M, owner), action)
    ELSE IF hostConfig(M.heap, owner).showCardActionMode = "Popup"
    THEN Returned(M, action)
    ELSE IF action = M.heap[owner].expandedAction
    THEN Returned(collapseExpandedAction(M, owner), NoObject)
    ELSE Returned(expandShowCardAction(M, owner, action), NoObject)

\* the position of the button that stands for this action, 0 when there is none
findActionButton(buttons, action) ==
    LET hits == {i \in DOMAIN buttons : buttons[i].action = action}
    IN  IF hits = {} THEN 0 ELSE CHOOSE i \in hits : \A j \in hits : i <= j

\* ActionCollection.removeAction
ActionCollection_removeAction(M, owner, action) ==
    LET collapsed == IF M.heap[owner].expandedAction # NoObject
                        /\ M.heap[owner].expandedAction = action
                     THEN collapseExpandedAction(M, owner)
                     ELSE M
        actionIndex == indexOf(collapsed.heap[owner].actions, action)
        button == findActionButton(collapsed.heap[owner].buttons, action)
    IN  IF actionIndex > 0
        THEN Returned([setParent([collapsed EXCEPT !.heap[owner].actions = RemoveAt(@, actionIndex)],
                                 action, NoObject)
                          EXCEPT !.heap[action].actionCollection = NoObject,
                                 !.heap[owner].buttons =
                                     IF button > 0 THEN RemoveAt(@, button) ELSE @], TRUE)
        ELSE Returned(collapsed, FALSE)

\* Action.remove
Action_remove(M, action) ==
    IF M.heap[action].actionCollection # NoObject
    THEN ActionCollection_removeAction(M, M.heap[action].actionCollection, action)
    ELSE Returned(M, FALSE)

-----------------------------------------------------------------------------
(* Specification of ownership: the host has constructed a handful of        *)
(* elements and actions, all detached, and moves them between containers    *)
(* with the public add and remove operations.                               *)

\* the objects the host constructs, in order
OwnedClasses ==
    <<"AdaptiveCard", "ActionSet", "Image", "ImageSet", "ColumnSet", "Column",
      "SubmitAction">>

RECURSIVE Constructed(_)
Constructed(n) ==
    IF n = 0 THEN Machine(<< >>, << >>, FALSE)
    ELSE New(Constructed(n - 1), OwnedClasses[n]).M

ObjectsOf(classes) == {o \in DOMAIN heap : heap[o].class \in classes}

Elements == {o \in DOMAIN heap : heap[o].class \notin ActionClasses}
Actions == ObjectsOf(ActionClasses)

InitOwn ==
    /\ heap = Constructed(Len(OwnedClasses)).heap
    /\ errors = << >>
    /\ thrown = FALSE
    /\ result = NoObject
    /\ call = NoCall
    /\ pc = "idle"
    /\ report = NoReport
    /\ elementTypeRegistry = ElementTypeRegistry_reset
    /\ actionTypeRegistry = ActionTypeRegistry_reset

\* an operation has brought the tree to M, or has thrown and left it as it was
Operated(M) ==
    /\ heap' = M.heap
    /\ thrown' = M.thrown
    /\ UNCHANGED <<errors, result, call, pc, report, registries>>

OwnAddItem ==
    /\ \E c \in ObjectsOf(ContainerClasses \cup {"Column"}), item \in Elements :
          Operated(addItem(Machine(heap, errors, FALSE), c, item))

OwnInsertItemBefore ==
    /\ \E c \in ObjectsOf(ContainerClasses \cup {"Column"}), item \in Elements, at \in Elements :
          Operated(insertItemBefore(Machine(heap, errors, FALSE), c, item, at))

OwnInsertItemAfter ==
    /\ \E c \in ObjectsOf(ContainerClasses \cup {"Column"}), item \in Elements, at \in Elements :
          Operated(insertItemAfter(Machine(heap, errors, FALSE), c, item, at))

OwnRemoveItem ==
    /\ \E c \in ObjectsOf(ContainerClasses \cup {"Column", "ColumnSet", "ImageSet"}),
          item \in Elements :
          Operated(removeItem(Machine(heap, errors, FALSE), c, item).M)

OwnAddColumn ==
    /\ \E cs \in ObjectsOf({"ColumnSet"}), column \in ObjectsOf({"Column"}) :
          Operated(addColumn(Machine(heap, errors, FALSE), cs, column))

OwnAddImage ==
    /\ \E is \in ObjectsOf({"ImageSet"}), image \in ObjectsOf({"Image"}) :
          Operated(addImage(Machine(heap, errors, FALSE), is, image))

OwnAddAction ==
    /\ \E owner \in ObjectsOf(CardClasses \cup {"ActionSet"}), action \in Actions :
          Operated(ActionCollection_addAction(Machine(heap, errors, FALSE), owner, action))

OwnActionRemove ==
    /\ \E action \in Actions :
          Operated(Action_remove(Machine(heap, errors, FALSE), action).M)

NextOwn ==
    \/ OwnAddItem \/ OwnInsertItemBefore \/ OwnInsertItemAfter \/ OwnRemoveItem
    \/ OwnAddColumn \/ OwnAddImage \/ OwnAddAction \/ OwnActionRemove

SpecOwn == InitOwn /\ [][NextOwn]_vars

\* where x is held: <<c, "items", i>> or <<c, "actions", i>>
Memberships(x) ==
    UNION {{<<c, "items", i>> : i \in {k \in 1..Len(heap[c].items) : heap[c].items[k] = x}}
           \cup
           {<<c, "actions", i>> : i \in {k \in 1..Len(heap[c].actions) : heap[c].actions[k] = x}} :
           c \in DOMAIN heap}

\* every add of x that the host could make now
AddsOf(x) ==
    LET M == Machine(heap, errors, FALSE)
    IN  IF heap[x].class \in ActionClasses
        THEN {ActionCollection_addAction(M, owner, x) :
                 owner \in ObjectsOf(CardClasses \cup {"ActionSet"})}
        ELSE {addItem(M, c, x) : c \in ObjectsOf(ContainerClasses \cup {"Column"})}
             \cup {insertItemBefore(M, c, x, at) :
                      c \in ObjectsOf(ContainerClasses \cup {"Column"}), at \in Elements}
             \cup {insertItemAfter(M, c, x, at) :
                      c \in ObjectsOf(ContainerClasses \cup {"Column"}), at \in Elements}
             \cup (IF heap[x].class = "Column"
                   THEN {addColumn(M, cs, x) : cs \in ObjectsOf({"ColumnSet"})} ELSE {})
             \cup (IF heap[x].class = "Image"
                   THEN {addImage(M, is, x) : is \in ObjectsOf({"ImageSet"})} ELSE {})

(* C14: after any sequence of the add and remove operations, every element *)
(* or action is held by at most one child sequence, at most once, and its   *)
(* parent is the container (or the collection's owner) holding it; an add   *)
(* of an object that is already held fails: it throws and changes nothing.  *)
C14_ExclusiveOwnership ==
    \A x \in DOMAIN heap :
        /\ Cardinality(Memberships(x)) <= 1
        /\ \A m \in Memberships(x) : heap[x].parent = m[1]
        /\ Memberships(x) # {} =>
              \A after \in AddsOf(x) : after.thrown /\ after.heap = heap

\* the image sits in the column, the column in the column set, the column
\* set in the card, and the action in the action set
C14_Witness ==
    /\ \E co \in ObjectsOf({"Column"}), cs \in ObjectsOf({"ColumnSet"}),
          image \in ObjectsOf({"Image"}), card \in ObjectsOf({"AdaptiveCard"}) :
          /\ Memberships(image) = {<<co, "items", 1>>}
          /\ Memberships(co) = {<<cs, "items", 1>>}
          /\ \E i \in 1..2 : Memberships(cs) = {<<card, "items", i>>}
    /\ \E a \in Actions, as \in ObjectsOf({"ActionSet"}) :
          Memberships(a) = {<<as, "actions", 1>>}
    /\ thrown

-----------------------------------------------------------------------------
(* Specification of a card that is parsed and rendered: the host parses a   *)
(* card (heap[1]) from a fragment with a body and a "fallback" key, and     *)
(* renders it.                                                              *)

\* what Version.parse hands over for "version": "1.0" and "2.0"
CardVersions == {Version(LatestMajor, 0), Version(LatestMajor + 1, 0)}

BodyFragments == Fragments({"TextBlock", "Foo"}, 0)

\* the "body" of the card is held in items
CardFragments ==
    {JObject("AdaptiveCard", "", {}, fb, body) :
        fb \in FallbackScalars \cup {<<f>> : f \in BodyFragments},
        body \in SeqsUpTo(BodyFragments, MaxItems)}

RECURSIVE AdaptiveCard_render(_, _)
\* AdaptiveCard.render(): the result is the card whose element was built
\* (CardElement.render of a card always yields an element: renderIfEmpty)
AdaptiveCard_render(M, c) ==
    IF shouldFallback(M.heap, c) /\ M.heap[c].fallbackCard # NoObject
    THEN AdaptiveCard_render(
             [M EXCEPT !.heap[M.heap[c].fallbackCard].hostConfigOverride =
                            <<hostConfig(M.heap, c)>>],
             M.heap[c].fallbackCard)
    ELSE Returned(M, c)

InitRender ==
    /\ \E hc \in {<< >>, <<capXHostConfig>>} :
          heap = <<[CardObject("AdaptiveCard") EXCEPT !.hostConfigOverride = hc]>>
    /\ errors = << >>
    /\ thrown = FALSE
    /\ result = NoObject
    /\ call = NoCall
    /\ pc = "idle"
    /\ report = NoReport
    /\ elementTypeRegistry = ElementTypeRegistry_reset
    /\ actionTypeRegistry = ActionTypeRegistry_reset

\* card.parse(json), json carrying this "version"
CardParse ==
    /\ pc = "idle"
    /\ \E json \in CardFragments, v \in CardVersions :
          Returns(Returned(AdaptiveCard_parse(
                               Machine([heap EXCEPT ![RootCard].version = v], errors, FALSE),
                               RootCard, json),
                           NoObject),
                  Call("AdaptiveCard.parse", RootCard, json, << >>, FALSE))

\* card.render()
CardRender ==
    /\ pc = "done"
    /\ ~thrown
    /\ LET rendered == AdaptiveCard_render(Machine(heap, errors, FALSE), RootCard)
       IN  /\ heap' = rendered.M.heap
           /\ result' = rendered.result
    /\ pc' = "rendered"
    /\ UNCHANGED <<errors, thrown, call, report, registries>>

\* the host lets go of everything the card held and starts over
CardRelease ==
    /\ pc \in {"done", "rendered"}
    /\ heap' = <<[CardObject("AdaptiveCard") EXCEPT
                     !.hostConfigOverride = heap[RootCard].hostConfigOverride]>>
    /\ errors' = << >>
    /\ thrown' = FALSE
    /\ result' = NoObject
    /\ call' = NoCall
    /\ pc' = "idle"
    /\ UNCHANGED <<report, registries>>

NextRender == CardParse \/ CardRender \/ CardRelease

SpecRender == InitRender /\ [][NextRender]_vars

(* C17 as the spec states it: when the root card reports shouldFallback(),  *)
(* render() yields the fallback card's element if a fallback card was       *)
(* parsed and nothing otherwise; the card's own body is rendered only when  *)
(* shouldFallback() is false.                                               *)
C17_RootFallbackAtRender ==
    pc = "rendered" =>
        /\ shouldFallback(heap, RootCard) =>
              IF heap[RootCard].fallbackCard # NoObject
              THEN result = heap[RootCard].fallbackCard
              ELSE result = NoObject
        /\ result = RootCard => ~shouldFallback(heap, RootCard)

-----------------------------------------------------------------------------
(* Specification of the type registries used on their own: the host         *)
(* registers and unregisters types, clears and resets the two registries,   *)
(* and asks them for instances.  A factory is held as the class it news;    *)
(* schemaVersion is read by no lookup and is not held.                      *)

\* the most instances the host holds on to before letting go of them
MaxInstances == 2

\* TypeRegistry.registerType(typeName, createInstance)
registerType_alwaysPushes(items, typeName, createInstance) ==
    Append(items, Registration(typeName, createInstance))

registerType(items, typeName, createInstance) ==
    IF Len(findTypeRegistration(items, typeName)) > 0
    THEN LET first == CHOOSE i \in 1..Len(items) :
                          /\ items[i].typeName = typeName
                          /\ \A j \in 1..(i - 1) : items[j].typeName # typeName
         IN  [items EXCEPT ![first].createInstance = createInstance]
    ELSE Append(items, Registration(typeName, createInstance))

\* TypeRegistry.unregisterType(typeName): the first registration of the name
unregisterType(items, typeName) ==
    LET hits == {i \in 1..Len(items) : items[i].typeName = typeName}
    IN  IF hits = {} THEN items
        ELSE RemoveAt(items, CHOOSE i \in hits : \A j \in hits : i <= j)

\* TypeRegistry.clear()
TypeRegistry_clear == << >>

\* the registry of a kind, and its reset()
RegistryItems(kind) == IF kind = "action" THEN actionTypeRegistry ELSE elementTypeRegistry

TypeRegistry_reset(kind) ==
    IF kind = "action" THEN ActionTypeRegistry_reset ELSE ElementTypeRegistry_reset

RegistryKinds == {"element", "action"}

\* the names and the factories the host uses with each registry: a built-in
\* name and, for elements, the same name in another case, which is not built in
RegistryNames(kind) ==
    IF kind = "action" THEN {"Action.Submit"} ELSE {"TextBlock", "textblock"}

RegistryFactories(kind) ==
    IF kind = "action" THEN {"OpenUrlAction"} ELSE {"TextBlock", "Image"}

RegistryCall(op, kind, typeName, createInstance) ==
    [op |-> op, kind |-> kind, typeName |-> typeName, createInstance |-> createInstance]

InitRegistry ==
    /\ heap = << >>
    /\ errors = << >>
    /\ thrown = FALSE
    /\ result = NoObject
    /\ call = RegistryCall("none", "element", "", "")
    /\ pc = "idle"
    /\ report = NoReport
    /\ elementTypeRegistry = ElementTypeRegistry_reset
    /\ actionTypeRegistry = ActionTypeRegistry_reset

\* the registry of this kind becomes items; the other one stays
RegistryBecomes(kind, items, c) ==
    /\ elementTypeRegistry' = IF kind = "element" THEN items ELSE elementTypeRegistry
    /\ actionTypeRegistry' = IF kind = "action" THEN items ELSE actionTypeRegistry
    /\ call' = c
    /\ result' = NoObject
    /\ UNCHANGED <<heap, errors, thrown, pc, report>>

RegisterType ==
    \E kind \in RegistryKinds :
        \E typeName \in RegistryNames(kind), createInstance \in RegistryFactories(kind) :
            RegistryBecomes(kind, registerType(RegistryItems(kind), typeName, createInstance),
                            RegistryCall("registerType", kind, typeName, createInstance))

UnregisterType ==
    \E kind \in RegistryKinds :
        \E typeName \in RegistryNames(kind) :
            RegistryBecomes(kind, unregisterType(RegistryItems(kind), typeName),
                            RegistryCall("unregisterType", kind, typeName, ""))

Clear ==
    \E kind \in RegistryKinds :
        RegistryBecomes(kind, TypeRegistry_clear, RegistryCall("clear", kind, "", ""))

Reset ==
    \E kind \in RegistryKinds :
        RegistryBecomes(kind, TypeRegistry_reset(kind), RegistryCall("reset", kind, "", ""))

\* registry.createInstance(typeName)
CreateInstance ==
    /\ Len(heap) < MaxInstances
    /\ \E kind \in RegistryKinds :
          \E typeName \in RegistryNames(kind) :
              LET made == TypeRegistry_createInstance(Machine(heap, errors, FALSE),
                                                      RegistryItems(kind), typeName)
              IN  /\ heap' = made.M.heap
                  /\ result' = made.result
                  /\ call' = RegistryCall("createInstance", kind, typeName, "")
    /\ UNCHANGED <<errors, thrown, pc, report, registries>>

\* the host lets go of the instances it was given
Discard ==
    /\ heap # << >>
    /\ heap' = << >>
    /\ result' = NoObject
    /\ call' = RegistryCall("none", "element", "", "")
    /\ UNCHANGED <<errors, thrown, pc, report, registries>>

NextRegistry ==
    RegisterType \/ UnregisterType \/ Clear \/ Reset \/ CreateInstance \/ Discard

SpecRegistry == InitRegistry /\ [][NextRegistry]_vars

\* the registrations a registry holds under a name
RegistrationsOf(items, typeName) == {i \in 1..Len(items) : items[i].typeName = typeName}

\* the factory a registry holds for a name, as a set: empty when the name is
\* not registered
FactoriesOf(items, typeName) ==
    {items[i].createInstance : i \in RegistrationsOf(items, typeName)}

\* what the last call leaves registered under a name, given what was
\* registered before it
FactoriesAfter(c, before, typeName) ==
    CASE c.op = "registerType" /\ c.typeName = typeName -> {c.createInstance}
      [] c.op = "unregisterType" /\ c.typeName = typeName -> {}
      [] c.op = "clear" -> {}
      [] c.op = "reset" -> FactoriesOf(TypeRegistry_reset(c.kind), typeName)
      [] OTHER -> FactoriesOf(before, typeName)

AllTypeNames(kind) ==
    RegistryNames(kind) \cup {TypeRegistry_reset(kind)[i].typeName :
                                 i \in 1..Len(TypeRegistry_reset(kind))}

(* C18: after any sequence of registerType, unregisterType, clear and       *)
(* reset, a registry holds at most one registration per type name;          *)
(* createInstance(n) returns a new instance made by the factory registered  *)
(* for exactly the name n, and undefined when n is not registered; each     *)
(* call leaves under every name the factory the claim says (the one just    *)
(* registered, none after unregisterType or clear, the one held before      *)
(* otherwise); and reset() leaves exactly the built-in registrations.       *)
C18_TypeRegistryLookup ==
    /\ [](\A kind \in RegistryKinds : \A n \in AllTypeNames(kind) :
             Cardinality(RegistrationsOf(RegistryItems(kind), n)) <= 1)
    /\ [](call.op = "createInstance" =>
             IF FactoriesOf(RegistryItems(call.kind), call.typeName) = {}
             THEN result = NoObject
             ELSE /\ result = Len(heap)
                  /\ FactoriesOf(RegistryItems(call.kind), call.typeName)
                        = {heap[result].class})
    /\ [][ LET kind == call'.kind
               before == IF kind = "action" THEN actionTypeRegistry ELSE elementTypeRegistry
               after == IF kind = "action" THEN actionTypeRegistry' ELSE elementTypeRegistry'
           IN  /\ \A n \in AllTypeNames(kind) :
                     FactoriesOf(after, n) = FactoriesAfter(call', before, n)
               /\ call'.op = "createInstance" => result' \notin DOMAIN heap
               /\ call'.op = "reset" => after = TypeRegistry_reset(kind)
         ]_vars

\* a built-in name was registered again with another factory, and
\* createInstance of it returned an instance made by that factory, while the
\* same name in another case is not registered
C18_Witness ==
    /\ call = RegistryCall("createInstance", "element", "TextBlock", "")
    /\ result # NoObject
    /\ heap[result].class = "Image"
    /\ FactoriesOf(elementTypeRegistry, "textblock") = {}
    /\ Len(elementTypeRegistry) = Len(ElementTypeRegistry_reset)

-----------------------------------------------------------------------------
(* Specification of an object that is parsed more than once: the host       *)
(* holds a Container, an AdaptiveCard, a ColumnSet or an ActionSet          *)
(* (heap[1]) and calls its parse twice, with two fragments.                 *)

Parsed == 1

ReparsedClasses == {"Container", "AdaptiveCard", "ColumnSet", "ActionSet"}

\* the type names a child fragment of each class is given: one that its
\* parse can instantiate and one that it cannot
ChildTypeNames(class) ==
    CASE class = "ColumnSet" -> {"Column", "Foo"}
      [] class = "ActionSet" -> {"Action.Submit", "Action.Foo"}
      [] OTHER -> {"TextBlock", "Foo"}

\* the fragments handed to parse: children under "items", "body", "columns"
\* or "actions", held in items
FragmentsOf(class) ==
    {JObject(class, "", {}, << >>, children) :
        children \in SeqsUpTo(Fragments(ChildTypeNames(class), 0), MaxItems)}

InitReparse ==
    /\ \E class \in ReparsedClasses, hc \in {<< >>, <<capXHostConfig>>} :
          heap = <<[CardObject(class) EXCEPT !.hostConfigOverride = hc]>>
    /\ errors = << >>
    /\ thrown = FALSE
    /\ result = NoObject
    /\ call = NoCall
    /\ pc = "idle"
    /\ report = NoReport
    /\ elementTypeRegistry = ElementTypeRegistry_reset
    /\ actionTypeRegistry = ActionTypeRegistry_reset

\* x.parse(J1)
ParseOnce ==
    /\ pc = "idle"
    /\ \E json \in FragmentsOf(heap[Parsed].class) :
          Returns(Returned(parse(Machine(heap, errors, FALSE), Parsed, json), NoObject),
                  Call("parse", Parsed, json, << >>, FALSE))

\* x.parse(J2) on the object that was parsed from J1
ParseAgain ==
    /\ pc = "done"
    /\ ~thrown
    /\ \E json \in FragmentsOf(heap[Parsed].class) :
          LET parsed == parse(Machine(heap, << >>, FALSE), Parsed, json)
          IN  /\ heap' = parsed.heap
              /\ errors' = parsed.errors
              /\ thrown' = parsed.thrown
              /\ call' = Call("parse", Parsed, json, << >>, FALSE)
    /\ pc' = "again"
    /\ UNCHANGED <<result, report, registries>>

\* the host starts over with a new object of the same class
Forget ==
    /\ pc \in {"done", "again"}
    /\ heap' = <<[CardObject(heap[Parsed].class) EXCEPT
                     !.hostConfigOverride = heap[Parsed].hostConfigOverride]>>
    /\ errors' = << >>
    /\ thrown' = FALSE
    /\ call' = NoCall
    /\ pc' = "idle"
    /\ UNCHANGED <<result, report, registries>>

NextReparse == ParseOnce \/ ParseAgain \/ Forget

SpecReparse == InitReparse /\ [][NextReparse]_vars

\* a new object of the same class under the same host, parsed from J
ParsedFromScratch(json) ==
    LET made == New(Machine(heap, << >>, FALSE), heap[Parsed].class)
        hosted == [made.M EXCEPT !.heap[made.result].hostConfigOverride =
                                     heap[Parsed].hostConfigOverride]
    IN  Returned(parse(hosted, made.result, json), made.result)

(* C19 as the spec states it: after x.parse(J1) and then x.parse(J2), the   *)
(* children, the actions and the should-fallback flag of x are those of an  *)
(* object parsed from J2 alone, for a Container, an AdaptiveCard, a         *)
(* ColumnSet and an ActionSet.                                              *)
C19_ParsingIsFromScratch ==
    (pc = "again" /\ ~thrown) =>
        LET scratch == ParsedFromScratch(call.json)
        IN  /\ toJSON(heap, Parsed) = toJSON(scratch.M.heap, scratch.result)
            /\ shouldFallback(heap, Parsed) = shouldFallback(scratch.M.heap, scratch.result)

-----------------------------------------------------------------------------
(* Specification of a card with nested content: the host parses a card      *)
(* (heap[1]) whose body nests Containers, ColumnSets and Columns around one *)
(* innermost element.                                                       *)

\* the most containers, column sets and columns around the innermost element
MaxDepth == 3

\* the innermost element: registered or not, with or without requirements,
\* without a fallback key or with "drop"
Leaves ==
    {JObject(t, "", r, fb, << >>) :
        t \in {"TextBlock", "Foo"}, r \in RequiresChoices, fb \in {<< >>, <<JString(StrDrop)>>}}

\* the fallback key of a nesting element: absent, "drop" in two spellings,
\* or an element of a type its place allows (a TextBlock; for a Column, a
\* Column)
AncestorFallbacks(type) ==
    {<< >>, <<JString(StrDrop)>>, <<JString(StrDropCapital)>>,
     <<JObject(type, "", {}, << >>, << >>)>>}

RECURSIVE ElementNest(_)
ElementNest(d) ==
    IF d = 0 THEN Leaves
    ELSE Leaves
         \cup {JObject("Container", "", {}, fb, <<x>>) :
                  fb \in AncestorFallbacks("TextBlock"), x \in ElementNest(d - 1)}
         \cup (IF d = 1 THEN {}
               ELSE {JObject("ColumnSet", "", {}, fb,
                             <<JObject("Column", "", {}, cfb, <<x>>)>>) :
                        fb \in AncestorFallbacks("TextBlock"),
                        cfb \in AncestorFallbacks("Column"),
                        x \in ElementNest(d - 2)})

NestedCards ==
    {JObject("AdaptiveCard", "", {}, << >>, <<x>>) : x \in ElementNest(MaxDepth)}

\* card.parse(json)
NestedParse ==
    /\ pc = "idle"
    /\ \E json \in NestedCards :
          Returns(Returned(AdaptiveCard_parse(Machine(heap, errors, FALSE), RootCard, json),
                           NoObject),
                  Call("AdaptiveCard.parse", RootCard, json, << >>, FALSE))

NextNested == NestedParse \/ CardRelease

SpecNested == InitRender /\ [][NextNested]_vars

\* the fragments from the card down to the innermost element
RECURSIVE Descend(_)
Descend(j) == <<j>> \o (IF j.items = << >> THEN << >> ELSE Descend(j.items[1]))

\* the objects from the card down, following the first child
RECURSIVE HeapDescend(_, _)
HeapDescend(h, o) ==
    <<o>> \o (IF h[o].items = << >> THEN << >> ELSE HeapDescend(h, h[o].items[1]))

\* the innermost element cannot be used: unknown type or unmet requires
Unresolvable(j) ==
    \/ j.type = "Foo"
    \/ NotAllMet(j.requires, hostConfig(heap, RootCard).hostCapabilities)

\* positions in the chain of the ancestors, below the card, that carry a
\* fallback key
FallbackCarriers(chain) == {i \in 2..(Len(chain) - 1) : chain[i].fallback # << >>}

Nearest(chain) == CHOOSE i \in FallbackCarriers(chain) : \A k \in FallbackCarriers(chain) : k <= i

\* the card was parsed from a chain whose innermost element is unresolvable
\* and has no fallback key
UnresolvableInnermost ==
    /\ pc = "done"
    /\ call.op = "AdaptiveCard.parse"
    /\ LET chain == Descend(call.json)
       IN  /\ Unresolvable(chain[Len(chain)])
           /\ chain[Len(chain)].fallback = << >>

-----------------------------------------------------------------------------
(* Specification of the three parse paths that instantiate a child: a card  *)
(* (heap[1], in design mode or not) holds one Container (heap[2]); the host *)
(* reads an action through the Container's selectAction property, an action *)
(* through the card's action collection, or an element through the          *)
(* Container's items.                                                       *)

\* ActionPropertyDefinition.parse(sender, source, errors), with source[name]
\* given as json
ActionPropertyDefinition_parse(M, sender, json, forbiddenActionTypes) ==
    createActionInstance(M, sender, json, forbiddenActionTypes,
                         isDesignMode(M.heap, sender))

PathContainer == RootCard + 1

\* Container.selectActionProperty
selectActionProperty == [name |-> "selectAction", forbiddenActionTypes |-> <<"Action.ShowCard">>]

PathActionFragments == Fragments({"Action.Submit", "Action.Foo"}, 1)
PathElementFragments == Fragments({"TextBlock", "Foo"}, 1)

PathHeap(designMode) ==
    <<[CardObject("AdaptiveCard") EXCEPT !.designMode = designMode,
                                        !.items = <<PathContainer>>],
      [CardObject("Container") EXCEPT !.parent = RootCard]>>

InitPaths ==
    /\ \E designMode \in BOOLEAN : heap = PathHeap(designMode)
    /\ errors = << >>
    /\ thrown = FALSE
    /\ result = NoObject
    /\ call = NoCall
    /\ pc = "idle"
    /\ report = NoReport
    /\ elementTypeRegistry = ElementTypeRegistry_reset
    /\ actionTypeRegistry = ActionTypeRegistry_reset

\* container.selectAction is read from the fragment
PropertyParse ==
    /\ pc = "idle"
    /\ \E json \in PathActionFragments :
          Returns(ActionPropertyDefinition_parse(Machine(heap, errors, FALSE), PathContainer,
                      json, selectActionProperty.forbiddenActionTypes),
                  Call("ActionPropertyDefinition.parse", PathContainer, json,
                       selectActionProperty.forbiddenActionTypes, FALSE))

\* the card's action collection parses [json]
CollectionParse ==
    /\ pc = "idle"
    /\ \E json \in PathActionFragments :
          LET parsed == ActionCollection_parse(Machine(heap, errors, FALSE), RootCard, <<json>>)
              actions == parsed.heap[RootCard].actions
          IN  Returns(Returned(parsed, IF actions = << >> THEN NoObject ELSE actions[1]),
                      Call("ActionCollection.parse", RootCard, json, << >>, FALSE))

\* the Container parses {type: "Container", items: [json]}
ItemsParse ==
    /\ pc = "idle"
    /\ \E json \in PathElementFragments :
          LET parsed == Container_parse(Machine(heap, errors, FALSE), PathContainer,
                                        JObject("Container", "", {}, << >>, <<json>>))
              items == parsed.heap[PathContainer].items
          IN  Returns(Returned(parsed, IF items = << >> THEN NoObject ELSE items[1]),
                      Call("Container.parse", PathContainer, json, << >>, FALSE))

\* the host lets go of what the last call made
PathRelease ==
    /\ pc = "done"
    /\ heap' = PathHeap(heap[RootCard].designMode)
    /\ errors' = << >>
    /\ thrown' = FALSE
    /\ result' = NoObject
    /\ call' = NoCall
    /\ pc' = "idle"
    /\ UNCHANGED <<report, registries>>

NextPaths == PropertyParse \/ CollectionParse \/ ItemsParse \/ PathRelease

SpecPaths == InitPaths /\ [][NextPaths]_vars

\* the fragment names a type no registry knows and carries, under "fallback",
\* a fragment of a registered type that asks nothing of the host
UnknownWithUsableFallback(j) ==
    /\ TypeNamed(j)
    /\ ~TypeRegistered(j, elementTypeRegistry)
    /\ ~TypeRegistered(j, actionTypeRegistry)
    /\ FallbackIsFragment(j)
    /\ j.fallback[1].requires = {}
    /\ \/ TypeRegistered(j.fallback[1], elementTypeRegistry)
       \/ TypeRegistered(j.fallback[1], actionTypeRegistry)

\* the call returned the instance of the fragment's fallback
ReplacedByFallback ==
    /\ result # NoObject
    /\ getJsonTypeName(heap[result]) = call.json.fallback[1].type

PathReturned(ops) == pc = "done" /\ call.op \in ops /\ UnknownWithUsableFallback(call.json)

(* C21: on every parse path (selectAction / inlineAction property, action   *)
(* collection, container items) an unregistered type with an object         *)
(* fallback is replaced by its fallback exactly when the card is not in     *)
(* design mode.                                                             *)
C21_SameFallbackPermissionOnEveryPath ==
    PathReturned({"ActionPropertyDefinition.parse", "ActionCollection.parse", "Container.parse"})
        => (ReplacedByFallback <=> ~heap[RootCard].designMode)

\* the same, for the two paths that read an array
C21_ArrayPaths ==
    PathReturned({"ActionCollection.parse", "Container.parse"})
        => (ReplacedByFallback <=> ~heap[RootCard].designMode)

\* the property path does the opposite
C21_PropertyPathInverted ==
    PathReturned({"ActionPropertyDefinition.parse"})
        => (ReplacedByFallback <=> heap[RootCard].designMode)

-----------------------------------------------------------------------------
(* C22: with allowFallback = false the fallback key is never used and the   *)
(* parent is left as it was: an unregistered type yields nothing and        *)
(* exactly one unknown-type error, a registered type yields its parsed      *)
(* instance, even one that reports shouldFallback().                        *)

C22_NoFallbackWhenNotAllowed ==
    [][ ( /\ pc = "idle" /\ pc' = "done"
          /\ ~call'.allowFallback
          /\ TypeNamed(call'.json)
          /\ ~TypeListed(call'.json, call'.forbiddenTypeNames) )
        => ( /\ ~thrown'
             /\ heap'[HostContainer] = heap[HostContainer]
             /\ IF TypeRegistered(call'.json, RegistryOf(call'))
                THEN /\ result' = Len(heap) + 1
                     /\ getJsonTypeName(heap'[result']) = call'.json.type
                     /\ heap'[result'].requires = call'.json.requires
                     /\ heap'[result'].parent = call'.parent
                     /\ \A i \in DOMAIN errors' :
                            errors'[i] # UnknownTypeError(call', call'.json)
                ELSE /\ result' = NoObject
                     /\ errors' = Append(errors, UnknownTypeError(call', call'.json))
                     /\ heap' = heap ) ]_vars

\* a registered type whose instance reports shouldFallback(), with an object
\* fallback that could have replaced it, is returned under its parent
C22_Witness ==
    /\ InstantiationReturned
    /\ ~call.allowFallback
    /\ call.parent = HostContainer
    /\ TypeKnown(call, call.json)
    /\ FallbackIsFragment(call.json)
    /\ TypeKnown(call, call.json.fallback[1])
    /\ result = FirstCreated
    /\ shouldFallback(heap, result)

\* an unregistered type with an object fallback yields nothing
C22_WitnessUnknown ==
    /\ InstantiationReturned
    /\ ~call.allowFallback
    /\ call.parent = HostContainer
    /\ TypeUnknown(call, call.json)
    /\ FallbackIsFragment(call.json)
    /\ TypeKnown(call, call.json.fallback[1])
    /\ result = NoObject

-----------------------------------------------------------------------------
OwnContainers == ObjectsOf(ContainerClasses \cup {"Column"})

\* every Container insertion of x into c that the host could make now
InsertionsOf(x, c) ==
    LET M == Machine(heap, errors, FALSE)
    IN  {addItem(M, c, x)}
        \cup {insertItemBefore(M, c, x, at) : at \in Elements}
        \cup {insertItemAfter(M, c, x, at) : at \in Elements}

\* every misuse from the current state throws and changes nothing, and an
\* element removed from a container can be added to each other one
MisuseAndReAdd ==
    /\ \A x \in Elements, c \in OwnContainers :
          (heap[x].parent # NoObject \/ ~isStandalone(heap[x]))
              => \A after \in InsertionsOf(x, c) : after.thrown /\ after.heap = heap
    /\ \A x \in Elements, c \in ObjectsOf(ContainerClasses \cup {"Column", "ImageSet"}) :
          LET removed == removeItem(Machine(heap, errors, FALSE), c, x)
          IN  (removed.result /\ isStandalone(heap[x]))
                  => \A other \in OwnContainers \ {c, x} :
                         LET added == addItem(removed.M, other, x)
                         IN  /\ ~added.thrown
                             /\ added.heap[x].parent = other
                             /\ added.heap[other].items = Append(removed.M.heap[other].items, x)
                             /\ indexOf(added.heap[c].items, x) = 0

(* C23: Container.addItem / insertItemBefore / insertItemAfter of an        *)
(* element that has a parent, or that is not standalone, throws and leaves  *)
(* the container's items, the element's parent and the element's previous   *)
(* container as they were; an element that removeItem has removed (it       *)
(* returned true) can be added to another container.                        *)
C23_MisuseThrowsAndChangesNothing ==
    [] MisuseAndReAdd /\ [][thrown' => heap' = heap]_vars

\* an operation has just thrown while the image, removed from the image set,
\* sits in the column and the column, not standalone, in the column set
C23_Witness ==
    /\ thrown
    /\ \E co \in ObjectsOf({"Column"}), cs \in ObjectsOf({"ColumnSet"}),
          image \in ObjectsOf({"Image"}), is \in ObjectsOf({"ImageSet"}) :
          /\ heap[image].parent = co
          /\ heap[co].items = <<is, image>>
          /\ heap[co].parent = cs
          /\ heap[is].parent = co

-----------------------------------------------------------------------------
(* Specification of ValidationResults: the host holds a few card objects    *)
(* and one ValidationResults (report), and calls addFailure on it; call     *)
(* keeps every addFailure call made on the report so far, in order.         *)

\* the most addFailure calls made on one ValidationResults
MaxFailures == 4

ReportedErrors ==
    {ValidationError("DuplicateId", "a"), ValidationError("PropertyCantBeNull", "")}

FailureCalls(history) == [op |-> "addFailure", history |-> history]

\* two text blocks that differ in nothing but identity, and an image
InitFailures ==
    /\ heap = <<CardObject("TextBlock"), CardObject("TextBlock"), CardObject("Image")>>
    /\ errors = << >>
    /\ thrown = FALSE
    /\ result = NoObject
    /\ call = FailureCalls(<< >>)
    /\ pc = "idle"
    /\ report = NewValidationResults
    /\ elementTypeRegistry = ElementTypeRegistry_reset
    /\ actionTypeRegistry = ActionTypeRegistry_reset

\* report.addFailure(cardObject, error)
AddFailure ==
    /\ Len(call.history) < MaxFailures
    /\ \E cardObject \in DOMAIN heap, error \in ReportedErrors :
          /\ report' = addFailure(report, cardObject, error)
          /\ call' = FailureCalls(Append(call.history,
                                         [cardObject |-> cardObject, error |-> error]))
    /\ UNCHANGED <<heap, errors, thrown, result, pc, registries>>

\* new ValidationResults()
NewResults ==
    /\ call.history # << >>
    /\ report' = NewValidationResults
    /\ call' = FailureCalls(<< >>)
    /\ UNCHANGED <<heap, errors, thrown, result, pc, registries>>

NextFailures == AddFailure \/ NewResults

SpecFailures == InitFailures /\ [][NextFailures]_vars

\* the errors of the calls that name o, in the order of the calls
RECURSIVE ErrorsAddedFor(_, _)
ErrorsAddedFor(history, o) ==
    IF history = << >> THEN << >>
    ELSE (IF Head(history).cardObject = o THEN <<Head(history).error>> ELSE << >>)
         \o ErrorsAddedFor(Tail(history), o)

\* the position of the first call that names o
FirstFailureOf(history, o) ==
    CHOOSE k \in DOMAIN history :
        /\ history[k].cardObject = o
        /\ \A j \in 1..(k - 1) : history[j].cardObject # o

RECURSIVE TotalErrors(_)
TotalErrors(failures) ==
    IF failures = << >> THEN 0 ELSE Len(Head(failures).errors) + TotalErrors(Tail(failures))

(* C24: after any sequence of addFailure calls, failures holds at most one  *)
(* entry per card object (by identity), the entries are in the order of     *)
(* each object's first failure, each entry's errors are in the order they   *)
(* were added, and the errors in all entries number the addFailure calls.   *)
C24_FailuresGroupedByIdentity ==
    LET failures == report.failures
        history == call.history
    IN  /\ \A i, j \in DOMAIN failures :
              failures[i].cardObject = failures[j].cardObject => i = j
        /\ {failures[i].cardObject : i \in DOMAIN failures}
              = {history[k].cardObject : k \in DOMAIN history}
        /\ \A i, j \in DOMAIN failures :
              i < j => FirstFailureOf(history, failures[i].cardObject)
                           < FirstFailureOf(history, failures[j].cardObject)
        /\ \A i \in DOMAIN failures :
              failures[i].errors = ErrorsAddedFor(history, failures[i].cardObject)
        /\ TotalErrors(failures) = Len(history)

\* the second text block failed first, then the first, then the second again
\* with the same error
C24_Witness ==
    /\ Len(call.history) = 3
    /\ report.failures =
          <<[cardObject |-> 2, errors |-> <<ValidationError("DuplicateId", "a"),
                                            ValidationError("DuplicateId", "a")>>],
            [cardObject |-> 1, errors |-> <<ValidationError("PropertyCantBeNull", "")>>]>>
    /\ heap[1] = heap[2]

-----------------------------------------------------------------------------
(* Specification of the child checks of a container: the host holds one     *)
(* Container (heap[1]) under a host config with or without interactivity;   *)
(* the Container is the shipped class (no forbidden element types) or a     *)
(* subclass whose getForbiddenElementTypes() returns ["Image"].  The host   *)
(* adds children and validates.                                             *)

ChildClasses == {"TextBlock", "Image", "TextInput", "ToggleInput"}

InitChecks ==
    /\ \E interactive \in BOOLEAN, forbidden \in {<< >>, <<"Image">>} :
          heap = <<[CardObject("Container") EXCEPT
                       !.hostConfigOverride = <<HostConfig({}, interactive)>>,
                       !.forbiddenElementTypes = forbidden]>>
    /\ errors = << >>
    /\ thrown = FALSE
    /\ result = NoObject
    /\ call = NoCall
    /\ pc = "idle"
    /\ report = NoReport
    /\ elementTypeRegistry = ElementTypeRegistry_reset
    /\ actionTypeRegistry = ActionTypeRegistry_reset

\* container.addItem(new X())
AddChild ==
    /\ Len(heap) < MaxNodes
    /\ \E class \in ChildClasses :
          LET made == New(Machine(heap, errors, FALSE), class)
              added == addItem(made.M, TreeRoot, made.result)
          IN  /\ heap' = added.heap
              /\ thrown' = added.thrown
    /\ pc' = "idle"
    /\ report' = NoReport
    /\ UNCHANGED <<errors, result, call, registries>>

\* container.validateProperties()
ValidateChildren ==
    /\ pc = "idle"
    /\ report' = validateProperties(heap, TreeRoot)
    /\ pc' = "validated"
    /\ UNCHANGED <<heap, errors, thrown, result, call, registries>>

NextChecks == AddChild \/ ValidateChildren

SpecChecks == InitChecks /\ [][NextChecks]_vars

\* the errors of this kind recorded on the container
RecordedOnContainer(error) ==
    LET mine == {i \in DOMAIN report.failures : report.failures[i].cardObject = TreeRoot}
    IN  IF mine = {} THEN 0
        ELSE LET recorded == report.failures[CHOOSE i \in mine : TRUE].errors
             IN  Cardinality({k \in DOMAIN recorded : recorded[k].error = error})

Children == {i \in DOMAIN heap[TreeRoot].items : TRUE}

InteractiveUnderStaticHost(i) ==
    /\ ~heap[TreeRoot].hostConfigOverride[1].supportsInteractivity
    /\ heap[heap[TreeRoot].items[i]].class \in InputClasses \cup {"ActionSet"}

OfForbiddenType(i) ==
    \E k \in DOMAIN heap[TreeRoot].forbiddenElementTypes :
        heap[TreeRoot].forbiddenElementTypes[k] = getJsonTypeName(heap[heap[TreeRoot].items[i]])

(* C25: validation of a container records, for every child, one             *)
(* InteractivityNotAllowed error on the container exactly when the host     *)
(* does not support interactivity and the child is interactive, and one     *)
(* ElementTypeNotAllowed error exactly when the child's type is among the   *)
(* container's forbidden element types; so a child that breaks one rule     *)
(* produces one error.                                                      *)
C25_ChildChecksIndependentOnceEach ==
    pc = "validated" =>
        /\ RecordedOnContainer("InteractivityNotAllowed")
              = Cardinality({i \in Children : InteractiveUnderStaticHost(i)})
        /\ RecordedOnContainer("ElementTypeNotAllowed")
              = Cardinality({i \in Children : OfForbiddenType(i)})

\* what the code records instead: two InteractivityNotAllowed errors for an
\* interactive child of a host without interactivity, one for a child of a
\* forbidden type, and never an ElementTypeNotAllowed error
C25_AsRecorded ==
    pc = "validated" =>
        /\ RecordedOnContainer("InteractivityNotAllowed")
              = 2 * Cardinality({i \in Children : InteractiveUnderStaticHost(i)})
                + Cardinality({i \in Children :
                                  OfForbiddenType(i) /\ ~InteractiveUnderStaticHost(i)})
        /\ RecordedOnContainer("ElementTypeNotAllowed") = 0

\* the shipped Container alone: no forbidden element types
C25_ShippedContainer ==
    (pc = "validated" /\ heap[TreeRoot].forbiddenElementTypes = << >>) =>
        RecordedOnContainer("InteractivityNotAllowed")
            = Cardinality({i \in Children : InteractiveUnderStaticHost(i)})

-----------------------------------------------------------------------------
(* Invocations of createCardObjectInstance, read off what a call leaves     *)
(* behind: an invocation that is given a named type records one             *)
(* forbidden-type error, or records one unknown-type error, or creates one  *)
(* instance.                                                                *)

\* the number of fallback objects nested under the fragment
RECURSIVE ChainLength(_)
ChainLength(j) ==
    IF FallbackIsFragment(j) THEN 1 + ChainLength(j.fallback[1]) ELSE 0

InstantiationErrors ==
    {i \in DOMAIN errors :
        errors[i].error \in {"UnknownElementType", "UnknownActionType",
                             "ElementTypeNotAllowed", "ActionTypeNotAllowed"}}

\* a ShowCardAction comes with its InlineAdaptiveCard, made by its constructor
InstancesCreated ==
    {o \in DOMAIN heap : o > HostContainer /\ heap[o].class # "InlineAdaptiveCard"}

InvocationsSeen == Cardinality(InstantiationErrors) + Cardinality(InstancesCreated)

\* at this level and at every level below, fallback is attempted: the type is
\* unknown, or it is known and its instance's requires are not met
RECURSIVE FallsBackAtEveryLevel(_, _)
FallsBackAtEveryLevel(c, j) ==
    /\ \/ TypeUnknown(c, j)
       \/ /\ TypeKnown(c, j)
          /\ RequiresUnmet(j.requires, HostCapabilitiesUnder(heap, c.parent))
    /\ FallbackIsFragment(j) => FallsBackAtEveryLevel(c, j.fallback[1])

(* C26: a fragment with a chain of n nested fallback objects causes at most *)
(* n + 1 invocations of createCardObjectInstance, and no depth guard cuts   *)
(* the chain short: when fallback is attempted at every level, all n + 1    *)
(* levels are visited.                                                      *)
C26_OneInvocationPerFallbackLevel ==
    InstantiationReturned =>
        /\ ~thrown
        /\ InvocationsSeen <= ChainLength(call.json) + 1
        /\ (call.allowFallback /\ FallsBackAtEveryLevel(call, call.json))
              => InvocationsSeen = ChainLength(call.json) + 1

\* the longest chain, followed to its end through an unknown type, an
\* instance whose requires are not met and a last unknown type
C26_Witness ==
    /\ InstantiationReturned
    /\ call.allowFallback
    /\ ChainLength(call.json) = MaxChain
    /\ FallsBackAtEveryLevel(call, call.json)
    /\ TypeUnknown(call, call.json)
    /\ TypeKnown(call, call.json.fallback[1])
    /\ InvocationsSeen = MaxChain + 1
    /\ Cardinality(InstancesCreated) = 1
    /\ result = NoObject

-----------------------------------------------------------------------------
(* Specification of Containers that are filled, emptied and parsed: the     *)
(* host has constructed two Containers (heap[1], heap[2]), a TextBlock and  *)
(* an Image, all detached, and calls addItem, insertItemBefore,             *)
(* insertItemAfter, removeItem, clear and parse on the Containers.          *)

FilledClasses == <<"Container", "Container", "TextBlock", "Image">>

RECURSIVE ConstructedFrom(_, _)
ConstructedFrom(classes, n) ==
    IF n = 0 THEN Machine(<< >>, << >>, FALSE)
    ELSE New(ConstructedFrom(classes, n - 1), classes[n]).M

FilledContainers == {o \in DOMAIN heap : heap[o].class = "Container"}
FilledLeaves == {o \in DOMAIN heap : heap[o].class # "Container"}

\* the fragments a Container is parsed from
FilledFragments ==
    {JObject("Container", "", {}, << >>, items) :
        items \in SeqsUpTo(Fragments({"TextBlock"}, 0), MaxItems)}

InitFilled ==
    /\ heap = ConstructedFrom(FilledClasses, Len(FilledClasses)).heap
    /\ errors = << >>
    /\ thrown = FALSE
    /\ result = NoObject
    /\ call = NoCall
    /\ pc = "idle"
    /\ report = NoReport
    /\ elementTypeRegistry = ElementTypeRegistry_reset
    /\ actionTypeRegistry = ActionTypeRegistry_reset

FilledAddItem ==
    \E c \in FilledContainers, item \in FilledLeaves :
        Operated(addItem(Machine(heap, errors, FALSE), c, item))

FilledInsertItemBefore ==
    \E c \in FilledContainers, item \in FilledLeaves, at \in FilledLeaves :
        Operated(insertItemBefore(Machine(heap, errors, FALSE), c, item, at))

FilledInsertItemAfter ==
    \E c \in FilledContainers, item \in FilledLeaves, at \in FilledLeaves :
        Operated(insertItemAfter(Machine(heap, errors, FALSE), c, item, at))

FilledRemoveItem ==
    \E c \in FilledContainers, item \in FilledLeaves :
        Operated(removeItem(Machine(heap, errors, FALSE), c, item).M)

\* c.clear()
FilledClear ==
    \E c \in FilledContainers :
        Operated(Container_clear(Machine(heap, errors, FALSE), c))

\* c.parse(json, []): the children it makes are new objects
FilledParse ==
    \E c \in FilledContainers, json \in FilledFragments :
        /\ Len(heap) + Len(json.items) <= MaxCardObjects + 1
        /\ Operated([parse(Machine(heap, errors, FALSE), c, json) EXCEPT !.errors = errors])

NextFilled ==
    \/ FilledAddItem \/ FilledInsertItemBefore \/ FilledInsertItemAfter
    \/ FilledRemoveItem \/ FilledClear \/ FilledParse

SpecFilled == InitFilled /\ [][NextFilled]_vars

HeldBy(P, x) == \E i \in DOMAIN heap[P].items : heap[P].items[i] = x

(* C27: after any sequence of addItem, insertItemBefore, insertItemAfter,   *)
(* removeItem, clear and parse on Containers, an element's parent is        *)
(* container P if and only if the element is in P's items; so an element    *)
(* dropped by clear() or by a re-parse has no parent and can be added to    *)
(* another container.                                                       *)
C27_ParentIffHeld ==
    \A x \in FilledLeaves :
        /\ \A P \in FilledContainers : heap[x].parent = P <=> HeldBy(P, x)
        /\ (\A P \in FilledContainers : ~HeldBy(P, x))
              => /\ heap[x].parent = NoObject
                 /\ \A other \in FilledContainers :
                        ~addItem(Machine(heap, errors, FALSE), other, x).thrown

\* the half that holds: an element that is in P's items has parent P, and is
\* in no other container's items
C27_HeldImpliesParent ==
    \A x \in FilledLeaves, P \in FilledContainers : HeldBy(P, x) => heap[x].parent = P

-----------------------------------------------------------------------------
(* Specification of RichTextBlock inlines: the host has constructed two     *)
(* RichTextBlocks (heap[1], heap[2]) and two TextRuns, all detached, and    *)
(* calls addInline and removeInline.                                        *)

\* the longest inline list the host builds
MaxInlines == 3

\* RichTextBlock.addInline
addInline(M, rtb, inline) == internalAddInline(M, rtb, inline, FALSE)

\* RichTextBlock.removeInline
removeInline(M, rtb, inline) ==
    LET index == indexOf(M.heap[rtb].inlines, inline)
    IN  IF index > 0
        THEN Returned([setParent(M, M.heap[rtb].inlines[index], NoObject)
                          EXCEPT !.heap[rtb].inlines = RemoveAt(@, index)], TRUE)
        ELSE Returned(M, FALSE)

InlineClasses == <<"RichTextBlock", "RichTextBlock", "TextRun", "TextRun">>

Blocks == {o \in DOMAIN heap : heap[o].class = "RichTextBlock"}
Runs == {o \in DOMAIN heap : heap[o].class = "TextRun"}

InitInlines ==
    /\ heap = ConstructedFrom(InlineClasses, Len(InlineClasses)).heap
    /\ errors = << >>
    /\ thrown = FALSE
    /\ result = NoObject
    /\ call = NoCall
    /\ pc = "idle"
    /\ report = NoReport
    /\ elementTypeRegistry = ElementTypeRegistry_reset
    /\ actionTypeRegistry = ActionTypeRegistry_reset

AddInline ==
    \E rtb \in Blocks, inline \in Runs :
        /\ Len(heap[rtb].inlines) < MaxInlines
        /\ Operated(addInline(Machine(heap, errors, FALSE), rtb, inline))

RemoveInline ==
    \E rtb \in Blocks, inline \in Runs :
        Operated(removeInline(Machine(heap, errors, FALSE), rtb, inline).M)

NextInlines == AddInline \/ RemoveInline

SpecInlines == InitInlines /\ [][NextInlines]_vars

InlinePositions(rtb, x) == {i \in DOMAIN heap[rtb].inlines : heap[rtb].inlines[i] = x}

(* C28: after any sequence of addInline and removeInline calls, the         *)
(* addInline of an inline that is already in the same block included,       *)
(* every inline appears at most once in a block's inline list, and it is    *)
(* in the list if and only if its parent is that block.                     *)
C28_InlineListConsistent ==
    \A rtb \in Blocks, x \in Runs :
        /\ Cardinality(InlinePositions(rtb, x)) <= 1
        /\ InlinePositions(rtb, x) # {} <=> heap[x].parent = rtb

-----------------------------------------------------------------------------
(* Specification of an action collection on screen: a card (heap[1]) owns   *)
(* the collection; the host has constructed two Action.ShowCard and one     *)
(* Action.Submit, adds and removes them, clears the collection and renders  *)
(* it, and the user clicks the action buttons that are on screen.  An       *)
(* action's onclick is the owner whose collection the handler of its        *)
(* rendered element calls (ActionButton.render), 0 when it has none.        *)

ExpandClasses == <<"AdaptiveCard", "ShowCardAction", "ShowCardAction", "SubmitAction">>

\* the loop of ActionCollection.render over items, from position i, with
\* rendered buttons already in the strip
RECURSIVE ActionCollection_renderButtons(_, _, _, _)
ActionCollection_renderButtons(M, owner, i, rendered) ==
    LET items == M.heap[owner].actions
        item == items[i]
        buttons == M.heap[owner].buttons
        withButton == IF findActionButton(buttons, item) = 0
                      THEN [M EXCEPT !.heap[owner].buttons = Append(@, ActionButton(item))]
                      ELSE M
        wired == [withButton EXCEPT !.heap[item].onclick = owner]
    IN  IF i > Len(items) THEN M
        ELSE IF ~isActionAllowed(M.heap, item, M.heap[owner].forbiddenActionTypes)
        THEN ActionCollection_renderButtons(M, owner, i + 1, rendered)
        ELSE IF rendered + 1 >= hostConfig(M.heap, owner).maxActions \/ i = Len(items)
        THEN wired
        ELSE ActionCollection_renderButtons(wired, owner, i + 1, rendered + 1)

\* ActionCollection.render, for an owner that is a Container; the element it
\* returns takes the place of the one rendered before
ActionCollection_render(M, owner) ==
    LET hc == hostConfig(M.heap, owner)
        items == M.heap[owner].actions
        maxActions == IF hc.maxActions # 0 /\ hc.maxActions < Len(items)
                      THEN hc.maxActions ELSE Len(items)
        replaced == [M EXCEPT !.heap = [o \in DOMAIN M.heap |->
                                           IF M.heap[o].onclick = owner
                                           THEN [M.heap[o] EXCEPT !.onclick = NoObject]
                                           ELSE M.heap[o]]]
        shown == IF /\ hc.preExpandSingleShowCardAction
                    /\ maxActions = 1
                    /\ M.heap[items[1]].class = "ShowCardAction"
                    /\ isActionAllowed(M.heap, items[1], M.heap[owner].forbiddenActionTypes)
                 THEN showActionCard(replaced, owner, items[1])
                 ELSE ActionCollection_renderButtons(replaced, owner, 1, 0)
        expanded == {i \in DOMAIN shown.heap[owner].buttons :
                        shown.heap[owner].buttons[i].state = "Expanded"}
    IN  IF ~hc.supportsInteractivity THEN M
        ELSE IF expanded = {} THEN shown
        ELSE expandShowCardAction(shown, owner,
                 shown.heap[owner].buttons[CHOOSE i \in expanded :
                                               \A j \in expanded : i <= j].action)

InitExpand ==
    /\ \E mode \in {"Inline", "Popup"}, preExpand \in BOOLEAN :
          heap = [ConstructedFrom(ExpandClasses, Len(ExpandClasses)).heap EXCEPT
                     ![RootCard].hostConfigOverride =
                         <<[defaultHostConfig EXCEPT
                               !.showCardActionMode = mode,
                               !.preExpandSingleShowCardAction = preExpand]>>]
    /\ errors = << >>
    /\ thrown = FALSE
    /\ result = NoObject
    /\ call = NoCall
    /\ pc = "idle"
    /\ report = NoReport
    /\ elementTypeRegistry = ElementTypeRegistry_reset
    /\ actionTypeRegistry = ActionTypeRegistry_reset

\* the operation op (on this action, for a click) has brought the card to M
\* and executed this action, if any
Acted(M, op, action, executed) ==
    /\ heap' = M.heap
    /\ thrown' = M.thrown
    /\ result' = executed
    /\ call' = Call(op, action, JUndefined, << >>, FALSE)
    /\ UNCHANGED <<errors, pc, report, registries>>

ExpandAddAction ==
    \E action \in Actions :
        Acted(ActionCollection_addAction(Machine(heap, errors, FALSE), RootCard, action),
              "addAction", NoObject, NoObject)

ExpandRemoveAction ==
    \E action \in Actions :
        Acted(ActionCollection_removeAction(Machine(heap, errors, FALSE), RootCard, action).M,
              "removeAction", NoObject, NoObject)

ExpandClear ==
    Acted(ActionCollection_clear(Machine(heap, errors, FALSE), RootCard),
          "clear", NoObject, NoObject)

ExpandRender ==
    Acted(ActionCollection_render(Machine(heap, errors, FALSE), RootCard),
          "render", NoObject, NoObject)

\* the user clicks the rendered element of an action
ExpandClick ==
    \E action \in Actions :
        /\ heap[action].onclick = RootCard
        /\ LET clicked == actionClicked(Machine(heap, errors, FALSE), RootCard, action)
           IN  Acted(clicked.M, "actionClicked", action, clicked.result)

NextExpand ==
    \/ ExpandAddAction \/ ExpandRemoveAction \/ ExpandClear \/ ExpandRender \/ ExpandClick

SpecExpand == InitExpand /\ [][NextExpand]_vars

ExpandedButtons ==
    {i \in DOMAIN heap[RootCard].buttons : heap[RootCard].buttons[i].state = "Expanded"}

AllButtonsNormal(h) ==
    \A i \in DOMAIN h[RootCard].buttons : h[RootCard].buttons[i].state = "Normal"

\* at most one Expanded button, and it stands for the expanded action, which
\* is a ShowCardAction if there is one
ExpansionWellFormed ==
    /\ Cardinality(ExpandedButtons) <= 1
    /\ \A i \in ExpandedButtons :
          heap[RootCard].buttons[i].action = heap[RootCard].expandedAction
    /\ heap[RootCard].expandedAction # NoObject
          => heap[heap[RootCard].expandedAction].class = "ShowCardAction"

\* the expanded action, if any, is one of the collection's items
ExpandedIsAnItem ==
    heap[RootCard].expandedAction # NoObject
        => indexOf(heap[RootCard].actions, heap[RootCard].expandedAction) > 0

\* a click on the expanded action's button collapses it, and a click on a
\* button of another kind of action collapses whatever is expanded and
\* executes the action
ClickCollapses ==
    (call'.op = "actionClicked" /\ <<heap, result, call>>' # <<heap, result, call>>) =>
        /\ (heap[call'.parent].class # "ShowCardAction")
              => /\ heap'[RootCard].expandedAction = NoObject
                 /\ AllButtonsNormal(heap')
                 /\ result' = call'.parent
        /\ ( /\ heap[call'.parent].class = "ShowCardAction"
             /\ call'.parent = heap[RootCard].expandedAction )
              => /\ heap'[RootCard].expandedAction = NoObject
                 /\ AllButtonsNormal(heap')

(* C29: after any sequence of action-button clicks, addAction, removeAction *)
(* and clear, at most one button is Expanded, an Expanded button's action   *)
(* is expandedAction, and expandedAction is undefined or a ShowCardAction   *)
(* among the collection's items; a click on the expanded action's button    *)
(* collapses it and returns every button to Normal, and a click on a        *)
(* button of an action that is not a ShowCardAction collapses any expanded  *)
(* card before the action executes.                                         *)
C29_ExpansionState ==
    [] (ExpansionWellFormed /\ ExpandedIsAnItem) /\ [][ClickCollapses]_vars

\* what holds: the claim without the membership of expandedAction in items,
\* and with the effect of a click read for the inline mode only
C29_WithoutMembership ==
    /\ [] ExpansionWellFormed
    /\ [][hostConfig(heap, RootCard).showCardActionMode = "Inline" => ClickCollapses]_vars

-----------------------------------------------------------------------------
(* Specification of show cards within show cards: under a card (heap[1])    *)
(* the host adds Action.Submit and Action.ShowCard to the card's actions    *)
(* and to the actions of the show cards' inline cards, and validates from   *)
(* the root.                                                                *)

\* card.addAction(new X()) on the root card or on a show card's card
NestAddAction ==
    /\ \E owner \in {o \in DOMAIN heap : heap[o].class \in CardClasses},
          class \in {"SubmitAction", "ShowCardAction"}, id \in FlatIds :
          /\ Len(heap) + (IF class = "ShowCardAction" THEN 2 ELSE 1) <= MaxCardObjects + 2
          /\ LET made == NewWithId(Machine(heap, errors, FALSE), class, id)
             IN  Built(ActionCollection_addAction(made.M, owner, made.result))

NextNest == NestAddAction \/ FlatValidate

SpecNest == InitFlat /\ [][NextNest]_vars

InlineCards == {o \in DOMAIN heap : heap[o].class = "InlineAdaptiveCard"}

\* the ActionTypeNotAllowed errors recorded on this object
NotAllowedRecordedOn(o) ==
    LET mine == {i \in DOMAIN report.failures : report.failures[i].cardObject = o}
    IN  IF mine = {} THEN 0
        ELSE LET recorded == report.failures[CHOOSE i \in mine : TRUE].errors
             IN  Cardinality({k \in DOMAIN recorded :
                                 recorded[k].error = "ActionTypeNotAllowed"})

ShowCardsAmong(actions) ==
    {i \in DOMAIN actions : heap[actions[i]].class = "ShowCardAction"}

(* C30: validation records an ActionTypeNotAllowed failure on a show        *)
(* card's inline card for every Action.ShowCard among that card's actions,  *)
(* and none for its other actions; the root card, which forbids nothing,    *)
(* records none.                                                            *)
C30_NestedShowCardNotAllowed ==
    pc = "validated" =>
        /\ \A c \in InlineCards :
              NotAllowedRecordedOn(c) = Cardinality(ShowCardsAmong(heap[c].actions))
        /\ NotAllowedRecordedOn(RootCard) = 0

\* what the code records: no ActionTypeNotAllowed failure on any object
C30_NoneRecorded ==
    pc = "validated" => \A o \in DOMAIN heap : NotAllowedRecordedOn(o) = 0

====
